---- MODULE Spec2Model ----
(***************************************************************************)
(* Workflow core of the consulting back office: clients, statements of     *)
(* work (SOW), projects, timesheets and their audit trail.                 *)
(*                                                                         *)
(* The state is the committed content of the database tables.  Every       *)
(* table has an autoincrement primary key and no row is ever deleted, so a *)
(* table is a sequence of rows and the id of a row is its index.  An       *)
(* action is one service call together with the commit (or, on failure,    *)
(* the rollback) of the request that made it.  The bookkeeping columns     *)
(* created_at / updated_at are not part of the modelled rows.  Where       *)
(* requests overlap (invoice numbering) generate_invoice is also modelled  *)
(* step by step, inflight holding what each open session has read so far.  *)
(***************************************************************************)
EXTENDS Integers, Sequences, FiniteSets, TLC

VARIABLES clients, sows, projects, timesheets, invoices, line_items, audit, last, inflight

vars == <<clients, sows, projects, timesheets, invoices, line_items, audit, last, inflight>>

(* ---------------------------------------------------------------- bounds *)
MaxClients == 1
MaxSows == 1
MaxProjects == 2
MaxTimesheets == 1
MaxAudit == 7
\* cap of the audit log while timesheets are worked on
MaxTsAudit == 8
\* cap of the audit log while a timesheet entry is edited
MaxEntryAudit == 7
MaxInvoices == 1
\* the last day of the calendar on which overdue days are calculated
MaxDay == 6
\* caps of the clients table and the audit log while clients are maintained
MaxClientRows == 2
MaxClientAudit == 8
\* caps of the invoices and audit rows while invoices are generated concurrently
MaxRaceInvoices == 2
MaxRaceAudit == 10
MaxRaceProjects == 2
\* cap of the audit log while invoices are generated
MaxInvoiceAudit == 9

(* ------------------------------------------------------------ value sets *)
\* NULL of a numeric, date or foreign-key column / Python None
None == 0
\* NULL of a text column
NoText == "None"

\* user ids: the account that enters and maintains the records, and the
\* accounts that decide on approvals
Clerks == {1}
Users == {1, 2}
Times == {1}
Emails == {"a@x", "b@x"}
Titles == {"T1", "T2"}
Texts == {"d1"}
Rates == {100, 150}
Budgets == {1000, 2000}
Dates == {2, 3}
\* days a timesheet can be dated
WorkDates == {1, 3}
\* hours in hundredths of an hour (Numeric(5, 2))
Hours == {800, 2500}
\* hourly rates in cents (Numeric(10, 2))
BillingRates == {10000}
\* the days, hours and rates tried when entries are created and edited: the
\* days around the project's dates, the ends of the hours range, and amounts
\* that do and do not fall on a whole cent
EntryDates == {1, 2, 3, 4}
EntryHours == {0, 750, 2400, 2500}
EntryRates == {10000, 12345}
\* hours and rates of the entries that are invoiced: 2.50 h at 40.10 is
\* 100.25, whose tax of 10.025 lies half-way between two cents
InvoiceHours == {250, 800}
InvoiceRates == {4010}
\* the role of the caller of an invoice endpoint; NoText when the token has none
Roles == {"admin", "project_manager", "accountant", "consultant", NoText}
PaymentDates == {2}
\* today and due dates of calculate_days_overdue, and the payment dates seen
OverdueDays == 1..MaxDay
OverduePayments == {None, 2, 5}
\* the requests that can be generating an invoice at the same time, and the
\* dates on which they run
Sessions == {1, 2}
InvoiceDates == {1, 2}
Notes == {"n1"}
Reasons == {"r1"}
\* an optional boolean argument: << >> is None
OptBool == {<< >>, <<TRUE>>, <<FALSE>>}

SowStatuses == {"draft", "pending", "approved", "rejected"}
ProjectStatuses == {"in_progress", "closed"}
TimesheetStatuses == {"draft", "submitted", "approved", "rejected"}

\* a column the update request does not carry (model_dump(exclude_unset=True))
Unset == -1
UnsetText == "<unset>"

\* columns of SOW that an update request can carry
SowUpdateFields == {"title", "description", "rate", "total_budget"}

\* columns of SOW declared nullable=False among the updatable ones
SowNotNullable == {"title", "rate", "total_budget"}

\* SOWUpdate: every column is optional and may be an explicit null
SowUpdateRequests ==
    [title : Titles \cup {NoText, UnsetText},
     description : Texts \cup {NoText, UnsetText},
     rate : Rates \cup {Unset},
     total_budget : Budgets \cup {None, Unset}]

\* text columns (String / Text); the others are numeric
TextFields == {"title", "description"}

IsUnset(req, f) == IF f \in TextFields THEN req[f] = UnsetText ELSE req[f] = Unset

\* the keys of sow_data.model_dump(exclude_unset=True)
Supplied(req) == {f \in SowUpdateFields : ~IsUnset(req, f)}

IsNull(req, f) == IF f \in TextFields THEN req[f] = NoText ELSE req[f] = None

(* ----------------------------------------------------------- audit trail *)
\* log_audit: one row appended per call; old/new values are serialised only
\* when the dict is non-empty, otherwise the column is NULL
AuditRow(user_id, action, entity_type, entity_id, old_values, new_values) ==
    [user_id |-> user_id, action |-> action, entity_type |-> entity_type,
     entity_id |-> entity_id, old_values |-> old_values, new_values |-> new_values]

\* mutant: the new row is put in front of the rows already written
log_audit_Prepends(log, user_id, action, entity_type, entity_id, old_values, new_values) ==
    <<AuditRow(user_id, action, entity_type, entity_id, old_values, new_values)>> \o log

\* mutant: the row is not written
log_audit_Dropped(log, user_id, action, entity_type, entity_id, old_values, new_values) ==
    log

log_audit(log, user_id, action, entity_type, entity_id, old_values, new_values) ==
    Append(log, AuditRow(user_id, action, entity_type, entity_id, old_values, new_values))

\* a database session that is not inside a generate_invoice request
Idle == [pc |-> "idle", client_id |-> None, project_id |-> None, selected |-> {},
         invoice_date |-> None, counted |-> None, invoice |-> NoText]

\* the committed tables
Tables == [clients |-> clients, sows |-> sows, projects |-> projects,
           timesheets |-> timesheets, invoices |-> invoices,
           line_items |-> line_items, audit |-> audit]

\* the request that ran last: operation, the id it was called with (the new
\* id for a create without a target), outcome, the payload of an update, and
\* the tables as the request found them
NoReq == [title |-> UnsetText, description |-> UnsetText, rate |-> Unset,
          total_budget |-> Unset]
OutcomeReq(op, id, result, req) ==
    [op |-> op, id |-> id, result |-> result, req |-> req, pre |-> Tables]
Outcome(op, id, result) == OutcomeReq(op, id, result, NoReq)

\* the email and is_active a client request carries
ClientArgs(email, is_active) == [email |-> email, is_active |-> is_active]

Exists(table, id) == id \in 1..Len(table)

(* --------------------------------------------------------------- clients *)
\* mutant: the lookup never finds a client
ClientByEmail_Blind(email) == {}

\* mutant: deleting removes the client's email with it
DeactivateClient_Wiped(client) == [client EXCEPT !.is_active = FALSE, !.email = NoText]

\* select(Client).where(Client.email == email)
ClientByEmail(email) == {c \in 1..Len(clients) : clients[c].email = email}

\* ClientService.create_client, for a table of at most rows clients and an
\* audit log of at most cap rows
CreateClientWith(rows, cap) ==
    \E email \in Emails, created_by \in Clerks :
        IF ClientByEmail(email) # {}
        THEN /\ last' = OutcomeReq("create_client", None, "AlreadyExists",
                                   ClientArgs(email, << >>))
             /\ UNCHANGED <<clients, sows, projects, timesheets, invoices, line_items, audit, inflight>>
        ELSE /\ Len(clients) < rows
             /\ Len(audit) < cap
             /\ clients' = Append(clients, [email |-> email, is_active |-> TRUE])
             /\ audit' = log_audit(audit, created_by, "create", "client",
                                   Len(clients) + 1, NoText, email)
             /\ last' = OutcomeReq("create_client", Len(clients) + 1, "ok",
                                   ClientArgs(email, << >>))
             /\ UNCHANGED <<sows, projects, timesheets, invoices, line_items, inflight>>

CreateClient == CreateClientWith(MaxClients, MaxAudit)

\* ClientUpdate payloads: email left out, null or an address; is_active left
\* out or a boolean
ClientUpdateRequests == [email : Emails \cup {UnsetText, NoText}, is_active : OptBool]

\* the fields of model_dump(exclude_unset=True) written with setattr
ApplyClientUpdate(client, req) ==
    [client EXCEPT !.email = IF req.email # UnsetText THEN req.email ELSE @,
                   !.is_active = IF req.is_active # << >> THEN req.is_active[1] ELSE @]

\* ClientService.update_client
UpdateClient ==
    \E client_id \in 1..(Len(clients) + 1), req \in ClientUpdateRequests,
       updated_by \in Clerks :
        IF ~Exists(clients, client_id)
        THEN /\ last' = OutcomeReq("update_client", client_id, "NotFound", req)
             /\ UNCHANGED <<clients, sows, projects, timesheets, invoices, line_items, audit, inflight>>
        ELSE IF /\ req.email \notin {UnsetText, NoText}
                /\ req.email # clients[client_id].email
                /\ ClientByEmail(req.email) # {}
        THEN /\ last' = OutcomeReq("update_client", client_id, "AlreadyExists", req)
             /\ UNCHANGED <<clients, sows, projects, timesheets, invoices, line_items, audit, inflight>>
        ELSE IF req.email = NoText
        THEN \* the flush violates NOT NULL on email and the request is rolled back
             /\ last' = OutcomeReq("update_client", client_id, "IntegrityError", req)
             /\ UNCHANGED <<clients, sows, projects, timesheets, invoices, line_items, audit, inflight>>
        ELSE /\ Len(audit) < MaxClientAudit
             /\ clients' = [clients EXCEPT ![client_id] = ApplyClientUpdate(@, req)]
             /\ audit' = log_audit(audit, updated_by, "update", "client", client_id,
                                   IF req.email # UnsetText THEN clients[client_id].email
                                   ELSE NoText,
                                   IF req.email # UnsetText THEN req.email ELSE NoText)
             /\ last' = OutcomeReq("update_client", client_id, "ok", req)
             /\ UNCHANGED <<sows, projects, timesheets, invoices, line_items, inflight>>

\* delete_client: client.is_active = False
DeactivateClient(client) == [client EXCEPT !.is_active = FALSE]

\* ClientService.delete_client
DeleteClient ==
    \E client_id \in 1..(Len(clients) + 1), deleted_by \in Clerks :
        IF ~Exists(clients, client_id)
        THEN /\ last' = Outcome("delete_client", client_id, "NotFound")
             /\ UNCHANGED <<clients, sows, projects, timesheets, invoices, line_items, audit, inflight>>
        ELSE /\ Len(audit) < MaxClientAudit
             /\ clients' = [clients EXCEPT ![client_id] = DeactivateClient(@)]
             /\ audit' = log_audit(audit, deleted_by, "delete", "client", client_id,
                                   "True", "False")
             /\ last' = Outcome("delete_client", client_id, "ok")
             /\ UNCHANGED <<sows, projects, timesheets, invoices, line_items, inflight>>

(* ------------------------------------------------------------------ SOWs *)
\* SOWCreate payloads that pass the model's validators
SowCreateRequests ==
    {r \in [client_id : 1..(MaxClients + 1), title : Titles,
            description : Texts \cup {NoText},
            start_date : Dates, end_date : Dates,
            rate : Rates, total_budget : Budgets] :
        r.end_date > r.start_date}        \* SOWBase.validate_date_range

\* SOWService.create_sow
CreateSOW ==
    \E client_id \in 1..(Len(clients) + 1), created_by \in Clerks :
        IF ~Exists(clients, client_id)
        THEN /\ last' = Outcome("create_sow", None, "NotFound")
             /\ UNCHANGED <<clients, sows, projects, timesheets, invoices, line_items, audit, inflight>>
        ELSE \E r \in SowCreateRequests :
             /\ r.client_id = client_id
             /\ Len(sows) < MaxSows
             /\ Len(audit) < MaxAudit
             /\ sows' = Append(sows,
                    [client_id |-> r.client_id, title |-> r.title,
                     description |-> r.description,
                     start_date |-> r.start_date, end_date |-> r.end_date,
                     rate |-> r.rate, total_budget |-> r.total_budget,
                     status |-> "draft", created_by |-> created_by,
                     approved_by |-> None, approved_at |-> None])
             /\ audit' = log_audit(audit, created_by, "create", "sow",
                                   Len(sows) + 1, NoText, "draft")
             /\ last' = Outcome("create_sow", Len(sows) + 1, "ok")
             /\ UNCHANGED <<clients, projects, timesheets, invoices, line_items, inflight>>

\* mutant: a SOW can be resubmitted while it is pending
SubmitSowAllowed_OrPending(sow) == sow.status \in {"draft", "pending"}

\* mutant: a rejected SOW can be decided again
ApproveSowAllowed_OrRejected(sow) == sow.status \in {"pending", "rejected"}

\* mutant: a rejection leaves the approval stamp empty
StampApproval_RejectUnstamped(sow, approved, approved_by, now) ==
    IF approved
    THEN [sow EXCEPT !.status = "approved", !.approved_by = approved_by,
                     !.approved_at = now]
    ELSE [sow EXCEPT !.status = "rejected"]

\* update_sow: "if sow.status != 'draft': raise ValueError"
UpdateSowAllowed(sow) == sow.status = "draft"

\* submit_sow: "if sow.status != 'draft': raise ValueError"
SubmitSowAllowed(sow) == sow.status = "draft"

\* approve_sow: "if sow.status != 'pending': raise ValueError"
ApproveSowAllowed(sow) == sow.status = "pending"

\* approve_sow: the status and the approval stamp written on success
StampApproval(sow, approved, approved_by, now) ==
    [sow EXCEPT !.status = IF approved THEN "approved" ELSE "rejected",
                !.approved_by = approved_by,
                !.approved_at = now]

\* mutant: model_dump() without exclude_unset, every column the request does
\* not carry is written as null
ApplySowUpdate_AllKeys(sow, req) ==
    [f \in DOMAIN sow |->
        IF f \in Supplied(req) THEN req[f]
        ELSE IF f \in {"description"} THEN NoText
        ELSE sow[f]]

\* the loop "for key, value in update_data.items(): setattr(sow, key, value)"
ApplySowUpdate(sow, req) ==
    [f \in DOMAIN sow |-> IF f \in Supplied(req) THEN req[f] ELSE sow[f]]

\* SOWService.update_sow
UpdateSOW ==
    \E sow_id \in 1..(Len(sows) + 1) :
        IF ~Exists(sows, sow_id)
        THEN /\ last' = Outcome("update_sow", sow_id, "NotFound")
             /\ UNCHANGED <<clients, sows, projects, timesheets, invoices, line_items, audit, inflight>>
        ELSE IF ~UpdateSowAllowed(sows[sow_id])
        THEN /\ last' = Outcome("update_sow", sow_id, "InvalidState")
             /\ UNCHANGED <<clients, sows, projects, timesheets, invoices, line_items, audit, inflight>>
        ELSE \E req \in SowUpdateRequests :
             IF \E f \in Supplied(req) \cap SowNotNullable : IsNull(req, f)
             THEN \* the flush violates NOT NULL and the request is rolled back
                  /\ last' = Outcome("update_sow", sow_id, "IntegrityError")
                  /\ UNCHANGED <<clients, sows, projects, timesheets, invoices, line_items, audit, inflight>>
             ELSE /\ sows' = [sows EXCEPT ![sow_id] = ApplySowUpdate(@, req)]
                  /\ last' = OutcomeReq("update_sow", sow_id, "ok", req)
                  /\ UNCHANGED <<clients, projects, timesheets, invoices, line_items, audit, inflight>>

\* SOWService.submit_sow
SubmitSOW ==
    \E sow_id \in 1..(Len(sows) + 1) :
        IF ~Exists(sows, sow_id)
        THEN /\ last' = Outcome("submit_sow", sow_id, "NotFound")
             /\ UNCHANGED <<clients, sows, projects, timesheets, invoices, line_items, audit, inflight>>
        ELSE IF ~SubmitSowAllowed(sows[sow_id])
        THEN /\ last' = Outcome("submit_sow", sow_id, "InvalidState")
             /\ UNCHANGED <<clients, sows, projects, timesheets, invoices, line_items, audit, inflight>>
        ELSE /\ Len(audit) < MaxAudit
             /\ sows' = [sows EXCEPT ![sow_id].status = "pending"]
             /\ audit' = log_audit(audit, sows[sow_id].created_by, "submit", "sow",
                                   sow_id, sows[sow_id].status, "pending")
             /\ last' = Outcome("submit_sow", sow_id, "ok")
             /\ UNCHANGED <<clients, projects, timesheets, invoices, line_items, inflight>>

\* SOWService.approve_sow (reject_sow is approve_sow with approved = False)
ApproveSOW ==
    \E sow_id \in 1..(Len(sows) + 1), approved \in BOOLEAN,
       approved_by \in Users, now \in Times :
        LET op == IF approved THEN "approve_sow" ELSE "reject_sow"
            new_status == IF approved THEN "approved" ELSE "rejected"
            action == IF approved THEN "approve" ELSE "reject"
        IN
        IF ~Exists(sows, sow_id)
        THEN /\ last' = Outcome(op, sow_id, "NotFound")
             /\ UNCHANGED <<clients, sows, projects, timesheets, invoices, line_items, audit, inflight>>
        ELSE IF ~ApproveSowAllowed(sows[sow_id])
        THEN /\ last' = Outcome(op, sow_id, "InvalidState")
             /\ UNCHANGED <<clients, sows, projects, timesheets, invoices, line_items, audit, inflight>>
        ELSE /\ Len(audit) < MaxAudit
             /\ sows' = [sows EXCEPT
                          ![sow_id] = StampApproval(@, approved, approved_by, now)]
             /\ audit' = log_audit(audit, approved_by, action, "sow", sow_id,
                                   sows[sow_id].status, new_status)
             /\ last' = Outcome(op, sow_id, "ok")
             /\ UNCHANGED <<clients, projects, timesheets, invoices, line_items, inflight>>

(* -------------------------------------------------------------- projects *)
\* mutant: the existence check only sees projects that are still in progress
ProjectsOfSow_InProgress(sow_id) ==
    {p \in 1..Len(projects) :
        projects[p].sow_id = sow_id /\ projects[p].status = "in_progress"}

\* select(Project).where(Project.sow_id == sow_id)
ProjectsOfSow(sow_id) == {p \in 1..Len(projects) : projects[p].sow_id = sow_id}

\* mutant: a pending SOW is accepted as well
CreateProjectAllowed_OrPending(sow) == sow.status \in {"approved", "pending"}

\* mutant: the closed check of update_project is missing
UpdateProjectAllowed_Always(project) == TRUE

\* mutant: the closed check of close_project is missing
CloseProjectAllowed_Always(project) == TRUE

\* mutant: the budget is taken from the SOW's rate
ProjectFromSow_RateAsBudget(sow_id, sow, created_by) ==
    [sow_id |-> sow_id, name |-> sow.title, description |-> sow.description,
     status |-> "in_progress", start_date |-> sow.start_date,
     end_date |-> sow.end_date, budget |-> sow.rate,
     created_by |-> created_by]

\* create_project_from_sow: "if sow.status != 'approved': raise ValueError"
CreateProjectAllowed(sow) == sow.status = "approved"

\* update_project: "if project.status == 'closed': raise ValueError"
UpdateProjectAllowed(project) == project.status # "closed"

\* close_project: "if project.status == 'closed': raise ValueError"
CloseProjectAllowed(project) == project.status # "closed"

\* the Project(...) row built by create_project_from_sow
ProjectFromSow(sow_id, sow, created_by) ==
    [sow_id |-> sow_id, name |-> sow.title, description |-> sow.description,
     status |-> "in_progress", start_date |-> sow.start_date,
     end_date |-> sow.end_date, budget |-> sow.total_budget,
     created_by |-> created_by]

\* ProjectService.create_project_from_sow
CreateProjectFromSOW ==
    \E sow_id \in 1..(Len(sows) + 1), created_by \in Clerks :
        IF ~Exists(sows, sow_id)
        THEN /\ last' = Outcome("create_project_from_sow", sow_id, "NotFound")
             /\ UNCHANGED <<clients, sows, projects, timesheets, invoices, line_items, audit, inflight>>
        ELSE IF ~CreateProjectAllowed(sows[sow_id])
        THEN /\ last' = Outcome("create_project_from_sow", sow_id, "InvalidState")
             /\ UNCHANGED <<clients, sows, projects, timesheets, invoices, line_items, audit, inflight>>
        ELSE IF ProjectsOfSow(sow_id) # {}
        THEN /\ last' = Outcome("create_project_from_sow", sow_id, "AlreadyExists")
             /\ UNCHANGED <<clients, sows, projects, timesheets, invoices, line_items, audit, inflight>>
        ELSE /\ Len(projects) < MaxProjects
             /\ Len(audit) < MaxAudit
             /\ projects' = Append(projects,
                                   ProjectFromSow(sow_id, sows[sow_id], created_by))
             /\ audit' = log_audit(audit, created_by, "create", "project",
                                   Len(projects) + 1, NoText, "in_progress")
             /\ last' = Outcome("create_project_from_sow", sow_id, "ok")
             /\ UNCHANGED <<clients, sows, timesheets, invoices, line_items, inflight>>

\* ProjectService.update_project; description = NoText is the request that
\* carries no description (None)
UpdateProject ==
    \E project_id \in 1..(Len(projects) + 1),
       description \in Texts \cup {NoText}, updated_by \in Clerks :
        IF ~Exists(projects, project_id)
        THEN /\ last' = Outcome("update_project", project_id, "NotFound")
             /\ UNCHANGED <<clients, sows, projects, timesheets, invoices, line_items, audit, inflight>>
        ELSE IF ~UpdateProjectAllowed(projects[project_id])
        THEN /\ last' = Outcome("update_project", project_id, "InvalidState")
             /\ UNCHANGED <<clients, sows, projects, timesheets, invoices, line_items, audit, inflight>>
        ELSE IF description = NoText
        THEN /\ last' = Outcome("update_project", project_id, "ok")
             /\ UNCHANGED <<clients, sows, projects, timesheets, invoices, line_items, audit, inflight>>
        ELSE /\ Len(audit) < MaxAudit
             /\ projects' = [projects EXCEPT ![project_id].description = description]
             /\ audit' = log_audit(audit, updated_by, "update", "project", project_id,
                                   projects[project_id].description, description)
             /\ last' = Outcome("update_project", project_id, "ok")
             /\ UNCHANGED <<clients, sows, timesheets, invoices, line_items, inflight>>

\* ProjectService.close_project
CloseProject ==
    \E project_id \in 1..(Len(projects) + 1), closed_by \in Clerks :
        IF ~Exists(projects, project_id)
        THEN /\ last' = Outcome("close_project", project_id, "NotFound")
             /\ UNCHANGED <<clients, sows, projects, timesheets, invoices, line_items, audit, inflight>>
        ELSE IF ~CloseProjectAllowed(projects[project_id])
        THEN /\ last' = Outcome("close_project", project_id, "InvalidState")
             /\ UNCHANGED <<clients, sows, projects, timesheets, invoices, line_items, audit, inflight>>
        ELSE /\ Len(audit) < MaxAudit
             /\ projects' = [projects EXCEPT ![project_id].status = "closed"]
             /\ audit' = log_audit(audit, closed_by, "close", "project", project_id,
                                   projects[project_id].status, "closed")
             /\ last' = Outcome("close_project", project_id, "ok")
             /\ UNCHANGED <<clients, sows, timesheets, invoices, line_items, inflight>>

(* ------------------------------------------------------------ timesheets *)
\* "x or y" on user ids
OrElse(x, y) == IF x = None THEN y ELSE x

\* mutant: the amount ignores is_billable
BillableAmount_Always(hours_logged, billing_rate, is_billable) ==
    hours_logged * billing_rate

\* hours_logged * billing_rate if is_billable else Decimal("0"), in units of
\* 1/10000
BillableAmount(hours_logged, billing_rate, is_billable) ==
    IF is_billable THEN hours_logged * billing_rate ELSE 0

\* the cents a Numeric(12, 2) column can hold for an exact amount of x/10000:
\* the nearest cent, and either neighbour when x lies half-way (the backend
\* decides)
NumericStore(x) ==
    LET q == x \div 100
        r == x % 100
    IN IF r < 50 THEN {q} ELSE IF r > 50 THEN {q + 1} ELSE {q, q + 1}

\* mutant: a submitted timesheet can be submitted again
SubmitTimesheetAllowed_OrSubmitted(ts) == ts.status \in {"draft", "submitted"}

\* update_timesheet: "if timesheet.status != 'draft': raise ValueError"
UpdateTimesheetAllowed(ts) == ts.status = "draft"

\* submit_timesheet: "if timesheet.status != 'draft': raise ValueError"
SubmitTimesheetAllowed(ts) == ts.status = "draft"

\* approve_timesheet: "if timesheet.status != 'submitted': raise ValueError"
ApproveTimesheetAllowed(ts) == ts.status = "submitted"

\* reject_timesheet: "if timesheet.status != 'submitted': raise ValueError"
RejectTimesheetAllowed(ts) == ts.status = "submitted"

\* mutant: a day of exactly 24 hours is refused
HoursInRange_Below24(hours_logged) == ~(hours_logged <= 0 \/ hours_logged >= 2400)

\* mutant: a request without notes clears the notes
ApplyTimesheetUpdate_ClearsNotes(ts, req) ==
    [ts EXCEPT
        !.work_date = IF req.work_date # Unset THEN req.work_date ELSE @,
        !.hours_logged = IF req.hours_logged # Unset THEN req.hours_logged ELSE @,
        !.billing_rate = IF req.billing_rate # Unset THEN req.billing_rate ELSE @,
        !.is_billable = IF req.is_billable # << >> THEN req.is_billable[1] ELSE @,
        !.notes = IF req.notes # UnsetText THEN req.notes ELSE NoText]

\* create_timesheet: "if work_date < project.start_date or work_date >
\* project.end_date: raise ValueError"
WorkDateInRange(project, work_date) ==
    ~(work_date < project.start_date \/ work_date > project.end_date)

\* create_timesheet: "if hours_logged <= 0 or hours_logged > 24: raise
\* ValueError"
HoursInRange(hours_logged) == ~(hours_logged <= 0 \/ hours_logged > 2400)

\* the arguments of create_timesheet that its checks look at
CreateArgs(project_id, work_date, hours_logged) ==
    [project_id |-> project_id, work_date |-> work_date, hours_logged |-> hours_logged]

\* update_timesheet, "# Update fields": an argument left at None (Unset,
\* UnsetText, << >>) keeps the column
ApplyTimesheetUpdate(ts, req) ==
    [ts EXCEPT
        !.work_date = IF req.work_date # Unset THEN req.work_date ELSE @,
        !.hours_logged = IF req.hours_logged # Unset THEN req.hours_logged ELSE @,
        !.billing_rate = IF req.billing_rate # Unset THEN req.billing_rate ELSE @,
        !.is_billable = IF req.is_billable # << >> THEN req.is_billable[1] ELSE @,
        !.notes = IF req.notes # UnsetText THEN req.notes ELSE @]

\* the arguments of update_timesheet, each optional
TimesheetUpdateRequests(dates, hours, rates) ==
    [work_date : dates \cup {Unset}, hours_logged : hours \cup {Unset},
     billing_rate : rates \cup {Unset}, is_billable : OptBool,
     notes : Notes \cup {UnsetText}]

\* TimesheetService.create_timesheet, its arguments drawn from the given days,
\* hours and rates, while the audit log is shorter than cap
CreateTimesheetWith(dates, hours, rates, cap) ==
    \E project_id \in 1..(Len(projects) + 1), consultant_id \in Clerks,
       work_date \in dates, hours_logged \in hours :
        LET args == CreateArgs(project_id, work_date, hours_logged) IN
        IF ~Exists(projects, project_id)
        THEN /\ last' = OutcomeReq("create_timesheet", None, "NotFound", args)
             /\ UNCHANGED <<clients, sows, projects, timesheets, invoices, line_items, audit, inflight>>
        ELSE IF ~WorkDateInRange(projects[project_id], work_date)
        THEN /\ last' = OutcomeReq("create_timesheet", None, "OutOfRange", args)
             /\ UNCHANGED <<clients, sows, projects, timesheets, invoices, line_items, audit, inflight>>
        ELSE IF ~HoursInRange(hours_logged)
        THEN /\ last' = OutcomeReq("create_timesheet", None, "OutOfRange", args)
             /\ UNCHANGED <<clients, sows, projects, timesheets, invoices, line_items, audit, inflight>>
        ELSE /\ Len(timesheets) < MaxTimesheets
             /\ Len(audit) < cap
             /\ \E billing_rate \in rates, is_billable \in BOOLEAN,
                   notes \in Notes \cup {NoText}, created_by \in Clerks \cup {None} :
                \E billable_amount \in
                       NumericStore(BillableAmount(hours_logged, billing_rate, is_billable)) :
                /\ timesheets' = Append(timesheets,
                       [project_id |-> project_id, consultant_id |-> consultant_id,
                        invoice_id |-> None, work_date |-> work_date,
                        hours_logged |-> hours_logged, billing_rate |-> billing_rate,
                        billable_amount |-> billable_amount,
                        is_billable |-> is_billable, notes |-> notes,
                        status |-> "draft", submitted_at |-> None,
                        approved_by |-> None, approved_at |-> None])
                /\ audit' = log_audit(audit, OrElse(created_by, consultant_id), "create",
                                      "timesheet", Len(timesheets) + 1, NoText, "entry")
                /\ last' = OutcomeReq("create_timesheet", Len(timesheets) + 1, "ok", args)
                /\ UNCHANGED <<clients, sows, projects, invoices, line_items, inflight>>

CreateTimesheet == CreateTimesheetWith(WorkDates, Hours, BillingRates, MaxTsAudit)

\* TimesheetService.update_timesheet, its arguments drawn from the given days,
\* hours and rates, while the audit log is shorter than cap
UpdateTimesheetWith(dates, hours, rates, cap) ==
    \E timesheet_id \in 1..(Len(timesheets) + 1) :
        IF ~Exists(timesheets, timesheet_id)
        THEN /\ last' = Outcome("update_timesheet", timesheet_id, "NotFound")
             /\ UNCHANGED <<clients, sows, projects, timesheets, invoices, line_items, audit, inflight>>
        ELSE IF ~UpdateTimesheetAllowed(timesheets[timesheet_id])
        THEN /\ last' = Outcome("update_timesheet", timesheet_id, "InvalidState")
             /\ UNCHANGED <<clients, sows, projects, timesheets, invoices, line_items, audit, inflight>>
        ELSE /\ Len(audit) < cap
             /\ \E req \in TimesheetUpdateRequests(dates, hours, rates),
                   updated_by \in Clerks \cup {None} :
                LET ts == ApplyTimesheetUpdate(timesheets[timesheet_id], req)
                IN \E billable_amount \in NumericStore(
                          BillableAmount(ts.hours_logged, ts.billing_rate, ts.is_billable)) :
                   /\ timesheets' = [timesheets EXCEPT ![timesheet_id] =
                          [ts EXCEPT !.billable_amount = billable_amount]]
                   /\ audit' = log_audit(audit, OrElse(updated_by, 0), "update",
                                         "timesheet", timesheet_id, "entry", "entry")
                   /\ last' = OutcomeReq("update_timesheet", timesheet_id, "ok", req)
                   /\ UNCHANGED <<clients, sows, projects, invoices, line_items, inflight>>

UpdateTimesheet == UpdateTimesheetWith(WorkDates, Hours, BillingRates, MaxTsAudit)

\* mutant: the request model accepts any hours
TimesheetUpdateAccepts_Any(hours_logged) == TRUE

\* models.timesheet.TimesheetUpdate: hours_logged is None or gt=0, le=24
TimesheetUpdateAccepts(hours_logged) ==
    hours_logged = Unset \/ (hours_logged > 0 /\ hours_logged <= 2400)

\* an update whose payload is a TimesheetUpdate: the payload is validated when
\* it is built, and only a valid one reaches TimesheetService.update_timesheet
UpdateValidated ==
    \/ \E timesheet_id \in 1..(Len(timesheets) + 1),
          req \in TimesheetUpdateRequests({}, EntryHours, {}) :
          /\ req.is_billable = << >> /\ req.notes = UnsetText
          /\ ~TimesheetUpdateAccepts(req.hours_logged)
          /\ last' = OutcomeReq("update_timesheet", timesheet_id, "ValidationError", req)
          /\ UNCHANGED <<clients, sows, projects, timesheets, invoices, line_items,
                         audit, inflight>>
    \/ UpdateTimesheetWith(EntryDates,
                           {h \in EntryHours : TimesheetUpdateAccepts(h)},
                           EntryRates, MaxEntryAudit)

\* TimesheetService.submit_timesheet
SubmitTimesheet ==
    \E timesheet_id \in 1..(Len(timesheets) + 1), submitted_by \in Clerks \cup {None},
       now \in Times :
        IF ~Exists(timesheets, timesheet_id)
        THEN /\ last' = Outcome("submit_timesheet", timesheet_id, "NotFound")
             /\ UNCHANGED <<clients, sows, projects, timesheets, invoices, line_items, audit, inflight>>
        ELSE IF ~SubmitTimesheetAllowed(timesheets[timesheet_id])
        THEN /\ last' = Outcome("submit_timesheet", timesheet_id, "InvalidState")
             /\ UNCHANGED <<clients, sows, projects, timesheets, invoices, line_items, audit, inflight>>
        ELSE /\ Len(audit) < MaxTsAudit
             /\ timesheets' = [timesheets EXCEPT ![timesheet_id].status = "submitted",
                                                 ![timesheet_id].submitted_at = now]
             /\ audit' = log_audit(audit,
                                   OrElse(submitted_by, timesheets[timesheet_id].consultant_id),
                                   "submit", "timesheet", timesheet_id, NoText, "submitted")
             /\ last' = Outcome("submit_timesheet", timesheet_id, "ok")
             /\ UNCHANGED <<clients, sows, projects, invoices, line_items, inflight>>

\* TimesheetService.approve_timesheet
ApproveTimesheet ==
    \E timesheet_id \in 1..(Len(timesheets) + 1), approved_by \in Users \cup {None},
       now \in Times :
        IF ~Exists(timesheets, timesheet_id)
        THEN /\ last' = Outcome("approve_timesheet", timesheet_id, "NotFound")
             /\ UNCHANGED <<clients, sows, projects, timesheets, invoices, line_items, audit, inflight>>
        ELSE IF ~ApproveTimesheetAllowed(timesheets[timesheet_id])
        THEN /\ last' = Outcome("approve_timesheet", timesheet_id, "InvalidState")
             /\ UNCHANGED <<clients, sows, projects, timesheets, invoices, line_items, audit, inflight>>
        ELSE /\ Len(audit) < MaxTsAudit
             /\ timesheets' = [timesheets EXCEPT ![timesheet_id].status = "approved",
                                                 ![timesheet_id].approved_by = approved_by,
                                                 ![timesheet_id].approved_at = now]
             /\ audit' = log_audit(audit, OrElse(approved_by, 0), "approve",
                                   "timesheet", timesheet_id, NoText, "approved")
             /\ last' = Outcome("approve_timesheet", timesheet_id, "ok")
             /\ UNCHANGED <<clients, sows, projects, invoices, line_items, inflight>>

\* TimesheetService.reject_timesheet
RejectTimesheet ==
    \E timesheet_id \in 1..(Len(timesheets) + 1), rejected_by \in Users \cup {None},
       rejection_reason \in Reasons \cup {NoText} :
        IF ~Exists(timesheets, timesheet_id)
        THEN /\ last' = Outcome("reject_timesheet", timesheet_id, "NotFound")
             /\ UNCHANGED <<clients, sows, projects, timesheets, invoices, line_items, audit, inflight>>
        ELSE IF ~RejectTimesheetAllowed(timesheets[timesheet_id])
        THEN /\ last' = Outcome("reject_timesheet", timesheet_id, "InvalidState")
             /\ UNCHANGED <<clients, sows, projects, timesheets, invoices, line_items, audit, inflight>>
        ELSE /\ Len(audit) < MaxTsAudit
             /\ timesheets' = [timesheets EXCEPT
                    ![timesheet_id].status = "rejected",
                    ![timesheet_id].notes =
                        IF rejection_reason # NoText THEN "[REJECTED] " \o rejection_reason
                        ELSE @]
             /\ audit' = log_audit(audit, OrElse(rejected_by, 0), "reject",
                                   "timesheet", timesheet_id, NoText, "rejected")
             /\ last' = Outcome("reject_timesheet", timesheet_id, "ok")
             /\ UNCHANGED <<clients, sows, projects, invoices, line_items, inflight>>

(* -------------------- project creation, one step at a time per session *)
\* create_project_from_sow lines 33-49: the SOW is read and tested, then the
\* projects of the SOW are looked up (scalar_one_or_none raises when it finds
\* more than one row)
ProjectCheck(s) ==
    /\ inflight[s].pc = "idle"
    /\ \E sow_id \in 1..(Len(sows) + 1), created_by \in Users :
          IF ~Exists(sows, sow_id)
          THEN /\ last' = Outcome("create_project_from_sow", sow_id, "NotFound")
               /\ UNCHANGED <<clients, sows, projects, timesheets, invoices, line_items,
                              audit, inflight>>
          ELSE IF ~CreateProjectAllowed(sows[sow_id])
          THEN /\ last' = Outcome("create_project_from_sow", sow_id, "InvalidState")
               /\ UNCHANGED <<clients, sows, projects, timesheets, invoices, line_items,
                              audit, inflight>>
          ELSE IF Cardinality(ProjectsOfSow(sow_id)) > 1
          THEN /\ last' = Outcome("create_project_from_sow", sow_id, "MultipleResultsFound")
               /\ UNCHANGED <<clients, sows, projects, timesheets, invoices, line_items,
                              audit, inflight>>
          ELSE IF ProjectsOfSow(sow_id) # {}
          THEN /\ last' = Outcome("create_project_from_sow", sow_id, "AlreadyExists")
               /\ UNCHANGED <<clients, sows, projects, timesheets, invoices, line_items,
                              audit, inflight>>
          ELSE /\ inflight' = [inflight EXCEPT ![s] =
                                  [pc |-> "checked", sow_id |-> sow_id,
                                   sow |-> sows[sow_id], created_by |-> created_by]]
               /\ UNCHANGED <<clients, sows, projects, timesheets, invoices, line_items,
                              audit, last>>

\* lines 52-85: the Project is built from the SOW read above, inserted and audited;
\* the request then commits
ProjectInsert(s) ==
    /\ inflight[s].pc = "checked"
    /\ Len(projects) < MaxRaceProjects
    /\ Len(audit) < MaxRaceAudit
    /\ LET r == inflight[s] IN
       /\ projects' = Append(projects, ProjectFromSow(r.sow_id, r.sow, r.created_by))
       /\ audit' = log_audit(audit, r.created_by, "create", "project",
                             Len(projects) + 1, NoText, "in_progress")
       /\ last' = Outcome("create_project_from_sow", r.sow_id, "ok")
       /\ inflight' = [inflight EXCEPT ![s] = Idle]
       /\ UNCHANGED <<clients, sows, timesheets, invoices, line_items>>

(* ------------------------------------------------ timesheets: HTTP layer *)
\* the claims a bearer token carries (create_access_token encodes them as given)
Tokens == [sub : {"alice", NoText}, role : Roles, user_id : Users]

\* dependencies.get_current_user: only "sub" is read from the payload, so the
\* TokenData it returns has role and user_id at their default None
get_current_user(token) == [username |-> token.sub, role |-> NoText, user_id |-> None]

\* the role test of the approve and reject handlers
MayReview(current_user) == current_user.role \in {"project_manager", "admin"}

\* routers.timesheets.approve_timesheet
ApproveTimesheetRoute ==
    \E timesheet_id \in 1..(Len(timesheets) + 1), token \in Tokens, now \in Times :
        LET current_user == get_current_user(token)
            approved_by == current_user.user_id IN
        IF token.sub = NoText
        THEN /\ last' = OutcomeReq("http_approve_timesheet", timesheet_id, "Unauthorized", token)
             /\ UNCHANGED <<clients, sows, projects, timesheets, invoices, line_items, audit, inflight>>
        ELSE IF ~MayReview(current_user)
        THEN /\ last' = OutcomeReq("http_approve_timesheet", timesheet_id, "Forbidden", token)
             /\ UNCHANGED <<clients, sows, projects, timesheets, invoices, line_items, audit, inflight>>
        ELSE IF ~Exists(timesheets, timesheet_id)
        THEN /\ last' = OutcomeReq("http_approve_timesheet", timesheet_id, "NotFound", token)
             /\ UNCHANGED <<clients, sows, projects, timesheets, invoices, line_items, audit, inflight>>
        ELSE IF ~ApproveTimesheetAllowed(timesheets[timesheet_id])
        THEN /\ last' = OutcomeReq("http_approve_timesheet", timesheet_id, "InvalidState", token)
             /\ UNCHANGED <<clients, sows, projects, timesheets, invoices, line_items, audit, inflight>>
        ELSE /\ Len(audit) < MaxTsAudit
             /\ timesheets' = [timesheets EXCEPT ![timesheet_id].status = "approved",
                                                 ![timesheet_id].approved_by = approved_by,
                                                 ![timesheet_id].approved_at = now]
             /\ audit' = log_audit(audit, OrElse(approved_by, 0), "approve",
                                   "timesheet", timesheet_id, NoText, "approved")
             /\ last' = OutcomeReq("http_approve_timesheet", timesheet_id, "ok", token)
             /\ UNCHANGED <<clients, sows, projects, invoices, line_items, inflight>>

\* routers.timesheets.reject_timesheet
RejectTimesheetRoute ==
    \E timesheet_id \in 1..(Len(timesheets) + 1), token \in Tokens,
       reason \in Reasons \cup {NoText} :
        LET current_user == get_current_user(token)
            rejected_by == current_user.user_id IN
        IF token.sub = NoText
        THEN /\ last' = OutcomeReq("http_reject_timesheet", timesheet_id, "Unauthorized", token)
             /\ UNCHANGED <<clients, sows, projects, timesheets, invoices, line_items, audit, inflight>>
        ELSE IF ~MayReview(current_user)
        THEN /\ last' = OutcomeReq("http_reject_timesheet", timesheet_id, "Forbidden", token)
             /\ UNCHANGED <<clients, sows, projects, timesheets, invoices, line_items, audit, inflight>>
        ELSE IF ~Exists(timesheets, timesheet_id)
        THEN /\ last' = OutcomeReq("http_reject_timesheet", timesheet_id, "NotFound", token)
             /\ UNCHANGED <<clients, sows, projects, timesheets, invoices, line_items, audit, inflight>>
        ELSE IF ~RejectTimesheetAllowed(timesheets[timesheet_id])
        THEN /\ last' = OutcomeReq("http_reject_timesheet", timesheet_id, "InvalidState", token)
             /\ UNCHANGED <<clients, sows, projects, timesheets, invoices, line_items, audit, inflight>>
        ELSE /\ Len(audit) < MaxTsAudit
             /\ timesheets' = [timesheets EXCEPT
                    ![timesheet_id].status = "rejected",
                    ![timesheet_id].notes =
                        IF reason # NoText THEN "[REJECTED] " \o reason ELSE @]
             /\ audit' = log_audit(audit, OrElse(rejected_by, 0), "reject",
                                   "timesheet", timesheet_id, NoText, "rejected")
             /\ last' = OutcomeReq("http_reject_timesheet", timesheet_id, "ok", token)
             /\ UNCHANGED <<clients, sows, projects, invoices, line_items, inflight>>

(* -------------------------------------------------------------- invoices *)
\* mutant: the query does not filter on the project
ApprovedUninvoiced_AnyProject(project_id) ==
    {t \in 1..Len(timesheets) :
        timesheets[t].status = "approved" /\ timesheets[t].invoice_id = None}

\* select(Timesheet).where(project_id == ..., status == "approved",
\* invoice_id IS NULL)
ApprovedUninvoiced(project_id) ==
    {t \in 1..Len(timesheets) :
        /\ timesheets[t].project_id = project_id
        /\ timesheets[t].status = "approved"
        /\ timesheets[t].invoice_id = None}

\* sum(timesheet.billable_amount for timesheet in timesheets), in cents
RECURSIVE SumBillable(_)
SumBillable(ids) ==
    IF ids = {} THEN 0
    ELSE LET t == CHOOSE x \in ids : TRUE
         IN timesheets[t].billable_amount + SumBillable(ids \ {t})

\* Decimal.quantize(Decimal("0.01")) of n/d cents under the default context:
\* to the nearest cent, a half going to the even cent (ROUND_HALF_EVEN)
Quantize(n, d) ==
    LET q == n \div d
        r == n % d
    IN IF 2 * r < d THEN q
       ELSE IF 2 * r > d THEN q + 1
       ELSE IF q % 2 = 0 THEN q ELSE q + 1

\* mutant: the total leaves the tax out
TotalAmount_NoTax(subtotal, tax_amount) == Quantize(subtotal, 1)

\* (subtotal * Decimal("0.10")).quantize(Decimal("0.01"))
TaxAmount(subtotal) == Quantize(subtotal * 10, 100)

\* (subtotal + tax_amount).quantize(Decimal("0.01"))
TotalAmount(subtotal, tax_amount) == Quantize(subtotal + tax_amount, 1)

\* mutant: numbers handed to requests still in flight are counted as taken
InvoiceNumber_Reserved(invoice_date) ==
    [date |-> invoice_date,
     sequence |-> 1 + Cardinality({i \in 1..Len(invoices) :
                                       invoices[i].invoice_number.date = invoice_date})
                   + Cardinality({s \in Sessions :
                                       /\ inflight[s].pc = "numbered"
                                       /\ inflight[s].invoice_date = invoice_date})]

\* _generate_invoice_number: the date and 1 + the number of invoices whose
\* number carries that date
InvoiceNumber(invoice_date) ==
    [date |-> invoice_date,
     sequence |-> 1 + Cardinality({i \in 1..Len(invoices) :
                                       invoices[i].invoice_number.date = invoice_date})]

\* the Invoice(...) row built by generate_invoice
BuildInvoice(client_id, project_id, ids, invoice_date) ==
    LET subtotal == SumBillable(ids)
        tax_amount == TaxAmount(subtotal)
    IN [client_id |-> client_id, project_id |-> project_id,
        invoice_number |-> InvoiceNumber(invoice_date),
        invoice_date |-> invoice_date, due_date |-> None,
        subtotal |-> subtotal, tax_amount |-> tax_amount, discount_amount |-> 0,
        total_amount |-> TotalAmount(subtotal, tax_amount),
        status |-> "draft", payment_date |-> None]

\* the date columns of Invoice declared nullable=False that the row leaves
\* NULL: the INSERT of such a row fails
NullDates(invoice) == {f \in {"invoice_date", "due_date"} : invoice[f] = None}

\* mutant: the database accepts every Invoice row
InsertRefused_Never(invoice) == FALSE

\* the INSERT of the Invoice row at session.flush() fails: a NOT NULL column
\* is NULL, or the unique invoice_number is already taken
InsertRefused(invoice) ==
    \/ NullDates(invoice) # {}
    \/ \E i \in 1..Len(invoices) : invoices[i].invoice_number = invoice.invoice_number

\* the LineItem(...) rows built by generate_invoice, one per timesheet
RECURSIVE BuildLineItems(_, _)
BuildLineItems(ids, invoice_id) ==
    IF ids = {} THEN << >>
    ELSE LET t == CHOOSE x \in ids : \A y \in ids : x <= y
         IN <<[invoice_id |-> invoice_id, work_date |-> timesheets[t].work_date,
               quantity |-> timesheets[t].hours_logged,
               unit_price |-> timesheets[t].billing_rate,
               line_total |-> timesheets[t].billable_amount]>>
            \o BuildLineItems(ids \ {t}, invoice_id)

\* the arguments of generate_invoice, the timesheets it selected and the
\* Invoice row it built
InvoiceArgs(client_id, project_id, ids, invoice) ==
    [client_id |-> client_id, project_id |-> project_id, selected |-> ids,
     invoice |-> invoice]

\* InvoiceService.generate_invoice
GenerateInvoice ==
    \E client_id \in 1..(Len(clients) + 1), project_id \in 1..(Len(projects) + 1),
       created_by \in Clerks \cup {None}, now \in Times :
        LET ids == ApprovedUninvoiced(project_id)
            invoice == BuildInvoice(client_id, project_id, ids, now)
            invoice_id == Len(invoices) + 1
        IN
        IF ids = {}
        THEN /\ last' = OutcomeReq("generate_invoice", None, "ValidationError",
                                   InvoiceArgs(client_id, project_id, ids, NoText))
             /\ UNCHANGED <<clients, sows, projects, timesheets, invoices, line_items, audit, inflight>>
        ELSE IF ~Exists(clients, client_id) \/ ~Exists(projects, project_id)
        THEN /\ last' = OutcomeReq("generate_invoice", None, "NotFound",
                                   InvoiceArgs(client_id, project_id, ids, NoText))
             /\ UNCHANGED <<clients, sows, projects, timesheets, invoices, line_items, audit, inflight>>
        ELSE IF InsertRefused(invoice)
        THEN \* session.flush() of the Invoice fails; the request is rolled back
             /\ last' = OutcomeReq("generate_invoice", None, "IntegrityError",
                                   InvoiceArgs(client_id, project_id, ids, invoice))
             /\ UNCHANGED <<clients, sows, projects, timesheets, invoices, line_items, audit, inflight>>
        ELSE /\ Len(invoices) < MaxInvoices
             /\ Len(audit) < MaxInvoiceAudit
             /\ invoices' = Append(invoices, invoice)
             /\ line_items' = line_items \o BuildLineItems(ids, invoice_id)
             /\ timesheets' = [t \in 1..Len(timesheets) |->
                                  IF t \in ids
                                  THEN [timesheets[t] EXCEPT !.invoice_id = invoice_id]
                                  ELSE timesheets[t]]
             /\ audit' = log_audit(audit, OrElse(created_by, 1), "create", "invoice",
                                   invoice_id, NoText, "totals")
             /\ last' = OutcomeReq("generate_invoice", invoice_id, "ok",
                                   InvoiceArgs(client_id, project_id, ids, invoice))
             /\ UNCHANGED <<clients, sows, projects, inflight>>

\* sum(item.line_total for item in line_items) over the items of one invoice
RECURSIVE SumLineTotals(_)
SumLineTotals(items) ==
    IF items = {} THEN 0
    ELSE LET k == CHOOSE x \in items : TRUE
         IN line_items[k].line_total + SumLineTotals(items \ {k})

\* validate_invoice_totals on an existing invoice: True or the ValueError
TotalsMatch(invoice_id) ==
    LET invoice == invoices[invoice_id]
        items == {k \in 1..Len(line_items) : line_items[k].invoice_id = invoice_id}
        calculated_subtotal == SumLineTotals(items)
        calculated_tax == Quantize(calculated_subtotal * 10, 100)
        calculated_total == Quantize(calculated_subtotal + calculated_tax, 1)
    IN /\ calculated_subtotal = invoice.subtotal
       /\ calculated_tax = invoice.tax_amount
       /\ calculated_total = invoice.total_amount

\* InvoiceService.validate_invoice_totals: reads only
ValidateInvoiceTotals ==
    \E invoice_id \in 1..(Len(invoices) + 1) :
        /\ last' = Outcome("validate_invoice_totals", invoice_id,
                           IF ~Exists(invoices, invoice_id) THEN "NotFound"
                           ELSE IF TotalsMatch(invoice_id) THEN "ok"
                           ELSE "ValidationError")
        /\ UNCHANGED <<clients, sows, projects, timesheets, invoices, line_items, audit, inflight>>

\* send_invoice: if invoice.status != "draft": raise ValueError
SendInvoiceAllowed(invoice) == ~(invoice.status # "draft")

\* mark_invoice_paid: if invoice.status == "paid": raise ValueError
MarkInvoicePaidAllowed(invoice) == ~(invoice.status = "paid")

\* routers/invoices.py send_invoice
SendInvoice ==
    \E invoice_id \in 1..(Len(invoices) + 1), role \in Roles :
        IF role \notin {"admin", "project_manager"}
        THEN /\ last' = Outcome("send_invoice", invoice_id, "Forbidden")
             /\ UNCHANGED <<clients, sows, projects, timesheets, invoices, line_items, audit, inflight>>
        ELSE IF ~Exists(invoices, invoice_id)
        THEN /\ last' = Outcome("send_invoice", invoice_id, "NotFound")
             /\ UNCHANGED <<clients, sows, projects, timesheets, invoices, line_items, audit, inflight>>
        ELSE IF ~SendInvoiceAllowed(invoices[invoice_id])
        THEN /\ last' = Outcome("send_invoice", invoice_id, "InvalidState")
             /\ UNCHANGED <<clients, sows, projects, timesheets, invoices, line_items, audit, inflight>>
        ELSE /\ invoices' = [invoices EXCEPT ![invoice_id].status = "sent"]
             /\ last' = Outcome("send_invoice", invoice_id, "ok")
             /\ UNCHANGED <<clients, sows, projects, timesheets, line_items, audit, inflight>>

\* routers/invoices.py mark_invoice_paid
MarkInvoicePaid ==
    \E invoice_id \in 1..(Len(invoices) + 1), role \in Roles, payment_date \in PaymentDates :
        IF role \notin {"admin", "accountant"}
        THEN /\ last' = Outcome("mark_invoice_paid", invoice_id, "Forbidden")
             /\ UNCHANGED <<clients, sows, projects, timesheets, invoices, line_items, audit, inflight>>
        ELSE IF ~Exists(invoices, invoice_id)
        THEN /\ last' = Outcome("mark_invoice_paid", invoice_id, "NotFound")
             /\ UNCHANGED <<clients, sows, projects, timesheets, invoices, line_items, audit, inflight>>
        ELSE IF ~MarkInvoicePaidAllowed(invoices[invoice_id])
        THEN /\ last' = Outcome("mark_invoice_paid", invoice_id, "InvalidState")
             /\ UNCHANGED <<clients, sows, projects, timesheets, invoices, line_items, audit, inflight>>
        ELSE /\ invoices' = [invoices EXCEPT ![invoice_id].status = "paid",
                                             ![invoice_id].payment_date = payment_date]
             /\ last' = Outcome("mark_invoice_paid", invoice_id, "ok")
             /\ UNCHANGED <<clients, sows, projects, timesheets, line_items, audit, inflight>>

\* mutant: the difference is returned as it is, without max(0, ...)
DaysOverdue_Signed(today, due_date, payment_date) ==
    IF payment_date # None THEN 0
    ELSE IF due_date = None THEN 0
    ELSE today - due_date

\* InvoiceService.calculate_days_overdue, today being the current UTC date
DaysOverdue(today, due_date, payment_date) ==
    IF payment_date # None THEN 0
    ELSE IF ~(due_date # None) THEN 0
    ELSE LET days_overdue == today - due_date
         IN IF 0 >= days_overdue THEN 0 ELSE days_overdue

\* the invoice calculate_days_overdue is called with, the date of the call
\* and the value returned
OverdueArgs(today, due_date, payment_date, days) ==
    [today |-> today, due_date |-> due_date, payment_date |-> payment_date,
     days |-> days]

\* a call of calculate_days_overdue: reads only
CalculateDaysOverdue ==
    \E today \in OverdueDays, due_date \in OverdueDays \cup {None},
       payment_date \in OverduePayments :
        /\ last' = OutcomeReq("calculate_days_overdue", None, "ok",
                              OverdueArgs(today, due_date, payment_date,
                                          DaysOverdue(today, due_date, payment_date)))
        /\ UNCHANGED <<clients, sows, projects, timesheets, invoices, line_items, audit, inflight>>

\* the ProjectSummary built by get_project_summary: hours and amount are the
\* constants the method assigns, the percentage is computed from them
ProjectSummaryOf(project) ==
    LET total_hours == 0
        billable_amount == 0
    IN [total_hours |-> total_hours, billable_amount |-> billable_amount,
        hours_percentage |-> 0,
        budget_percentage |-> IF project.budget > 0
                              THEN (billable_amount * 100) \div project.budget
                              ELSE 0]

\* ProjectService.get_project_summary: reads only; None when there is no
\* such project
GetProjectSummary ==
    \E project_id \in 1..(Len(projects) + 1) :
        /\ last' = IF ~Exists(projects, project_id)
                   THEN Outcome("get_project_summary", project_id, "NotFound")
                   ELSE OutcomeReq("get_project_summary", project_id, "ok",
                                   ProjectSummaryOf(projects[project_id]))
        /\ UNCHANGED <<clients, sows, projects, timesheets, invoices, line_items, audit, inflight>>

(* ------------------------------------------- invoices, request by request *)
\* generate_invoice as the steps between which another request can run: each
\* await on the session hands control to the event loop.

\* lines 39-51: the timesheet query and the refusal of an empty result
InvoiceSelect(s) ==
    /\ inflight[s].pc = "idle"
    /\ \E client_id \in 1..(Len(clients) + 1), project_id \in 1..(Len(projects) + 1),
          now \in InvoiceDates :
          LET ids == ApprovedUninvoiced(project_id) IN
          IF ids = {}
          THEN /\ last' = OutcomeReq("generate_invoice", None, "ValidationError",
                                     InvoiceArgs(client_id, project_id, ids, NoText))
               /\ UNCHANGED <<clients, sows, projects, timesheets, invoices, line_items,
                              audit, inflight>>
          ELSE /\ inflight' = [inflight EXCEPT ![s] =
                                  [Idle EXCEPT !.pc = "selected", !.client_id = client_id,
                                               !.project_id = project_id,
                                               !.selected = ids, !.invoice_date = now]]
               /\ UNCHANGED <<clients, sows, projects, timesheets, invoices, line_items,
                              audit, last>>

\* lines 54-60: the client and the project are looked up
InvoiceLookup(s) ==
    /\ inflight[s].pc = "selected"
    /\ LET r == inflight[s] IN
       IF ~Exists(clients, r.client_id) \/ ~Exists(projects, r.project_id)
       THEN /\ last' = OutcomeReq("generate_invoice", None, "NotFound",
                                  InvoiceArgs(r.client_id, r.project_id, r.selected, NoText))
            /\ inflight' = [inflight EXCEPT ![s] = Idle]
            /\ UNCHANGED <<clients, sows, projects, timesheets, invoices, line_items, audit>>
       ELSE /\ inflight' = [inflight EXCEPT ![s].pc = "validated"]
            /\ UNCHANGED <<clients, sows, projects, timesheets, invoices, line_items,
                           audit, last>>

\* lines 63-87: the totals, the count of the invoices of the day that gives
\* the number, and the Invoice object
InvoiceNumbering(s) ==
    /\ inflight[s].pc = "validated"
    /\ LET r == inflight[s] IN
       inflight' = [inflight EXCEPT ![s] =
                       [r EXCEPT !.pc = "numbered",
                                 !.counted = Cardinality({i \in 1..Len(invoices) :
                                     invoices[i].invoice_number.date = r.invoice_date}),
                                 !.invoice = BuildInvoice(r.client_id, r.project_id,
                                                          r.selected, r.invoice_date)]]
    /\ UNCHANGED <<clients, sows, projects, timesheets, invoices, line_items, audit, last>>

\* lines 89-124 and the commit or rollback of the request: the INSERT of the
\* invoice, the line items, the timesheets marked, the audit row
InvoiceInsert(s) ==
    /\ inflight[s].pc = "numbered"
    /\ LET r == inflight[s]
           invoice_id == Len(invoices) + 1
       IN
       IF InsertRefused(r.invoice)
       THEN /\ last' = OutcomeReq("generate_invoice", None, "IntegrityError",
                                  InvoiceArgs(r.client_id, r.project_id, r.selected,
                                              r.invoice))
            /\ inflight' = [inflight EXCEPT ![s] = Idle]
            /\ UNCHANGED <<clients, sows, projects, timesheets, invoices, line_items, audit>>
       ELSE /\ Len(invoices) < MaxRaceInvoices
            /\ Len(audit) < MaxRaceAudit
            /\ invoices' = Append(invoices, r.invoice)
            /\ line_items' = line_items \o BuildLineItems(r.selected, invoice_id)
            /\ timesheets' = [t \in 1..Len(timesheets) |->
                                 IF t \in r.selected
                                 THEN [timesheets[t] EXCEPT !.invoice_id = invoice_id]
                                 ELSE timesheets[t]]
            /\ \E created_by \in Clerks \cup {None} :
                  audit' = log_audit(audit, OrElse(created_by, 1), "create", "invoice",
                                     invoice_id, NoText, "totals")
            /\ last' = OutcomeReq("generate_invoice", invoice_id, "ok",
                                  InvoiceArgs(r.client_id, r.project_id, r.selected,
                                              r.invoice))
            /\ inflight' = [inflight EXCEPT ![s] = Idle]
            /\ UNCHANGED <<clients, sows, projects>>

(* --------------------------------------------------------- specification *)
Init ==
    /\ clients = << >>
    /\ sows = << >>
    /\ projects = << >>
    /\ timesheets = << >>
    /\ invoices = << >>
    /\ line_items = << >>
    /\ audit = << >>
    /\ last = Outcome("init", None, "ok")
    /\ inflight = [s \in Sessions |-> Idle]

Next ==
    \/ CreateClient
    \/ CreateSOW
    \/ UpdateSOW
    \/ SubmitSOW
    \/ ApproveSOW
    \/ CreateProjectFromSOW
    \/ UpdateProject
    \/ CloseProject

Spec == Init /\ [][Next]_vars

(* ----------------------------------------- specification: timesheet work *)
\* The tables once a client has been registered, its SOW approved and the
\* project created from it: the state in which timesheets are entered.
ProjectReady ==
    LET sow == [client_id |-> 1, title |-> "T1", description |-> "d1",
                start_date |-> 2, end_date |-> 3, rate |-> 100,
                total_budget |-> 1000, status |-> "approved", created_by |-> 1,
                approved_by |-> 2, approved_at |-> 1]
        log == <<AuditRow(1, "create", "client", 1, NoText, "a@x"),
                 AuditRow(1, "create", "sow", 1, NoText, "draft"),
                 AuditRow(1, "submit", "sow", 1, "draft", "pending"),
                 AuditRow(2, "approve", "sow", 1, "pending", "approved")>>
    IN [clients |-> <<[email |-> "a@x", is_active |-> TRUE]>>,
        sows |-> <<sow>>,
        projects |-> <<ProjectFromSow(1, sow, 1)>>,
        timesheets |-> << >>,
        invoices |-> << >>,
        line_items |-> << >>,
        audit |-> Append(log, AuditRow(1, "create", "project", 1, NoText, "in_progress")),
        before |-> [clients |-> <<[email |-> "a@x", is_active |-> TRUE]>>,
                    sows |-> <<sow>>, projects |-> << >>, timesheets |-> << >>,
                    invoices |-> << >>, line_items |-> << >>, audit |-> log]]

InitTS ==
    /\ clients = ProjectReady.clients
    /\ sows = ProjectReady.sows
    /\ projects = ProjectReady.projects
    /\ timesheets = ProjectReady.timesheets
    /\ invoices = ProjectReady.invoices
    /\ line_items = ProjectReady.line_items
    /\ audit = ProjectReady.audit
    /\ last = [op |-> "create_project_from_sow", id |-> 1, result |-> "ok",
               req |-> NoReq, pre |-> ProjectReady.before]
    /\ inflight = [s \in Sessions |-> Idle]

NextTS ==
    \/ CreateTimesheet
    \/ UpdateTimesheet
    \/ SubmitTimesheet
    \/ ApproveTimesheet
    \/ RejectTimesheet

SpecTS == InitTS /\ [][NextTS]_vars

(* --------------------------------------- specification: timesheet creation *)
CreateEntry == CreateTimesheetWith(EntryDates, EntryHours, EntryRates, MaxTsAudit)

NextTC == CreateEntry

SpecTC == InitTS /\ [][NextTC]_vars

(* ---------------------------------------------- specification: invoicing *)
CreateBillable == CreateTimesheetWith({3}, InvoiceHours, InvoiceRates, MaxTsAudit)

NextInv ==
    \/ CreateBillable
    \/ SubmitTimesheet
    \/ ApproveTimesheet
    \/ RejectTimesheet
    \/ GenerateInvoice
    \/ ValidateInvoiceTotals
    \/ SendInvoice
    \/ MarkInvoicePaid
    \/ GetProjectSummary

SpecInv == InitTS /\ [][NextInv]_vars

(* ------------------------------------------- specification: overdue days *)
NextOverdue == CalculateDaysOverdue

SpecOverdue == Init /\ [][NextOverdue]_vars

(* --------------------------------- specification: concurrent invoicing *)
\* The tables once a timesheet of 2.50 hours at 40.10 has been entered,
\* submitted and approved on the project.
TimesheetApproved ==
    LET entry == [project_id |-> 1, consultant_id |-> 1, invoice_id |-> None,
                  work_date |-> 3, hours_logged |-> 250, billing_rate |-> 4010,
                  billable_amount |-> 10025, is_billable |-> TRUE, notes |-> NoText,
                  status |-> "submitted", submitted_at |-> 1, approved_by |-> None,
                  approved_at |-> None]
        log == ProjectReady.audit \o
                   <<AuditRow(1, "create", "timesheet", 1, NoText, "entry"),
                     AuditRow(1, "submit", "timesheet", 1, NoText, "submitted")>>
        found == [clients |-> ProjectReady.clients, sows |-> ProjectReady.sows,
                  projects |-> ProjectReady.projects, timesheets |-> <<entry>>,
                  invoices |-> << >>, line_items |-> << >>, audit |-> log]
    IN [found EXCEPT
           !.timesheets = <<[entry EXCEPT !.status = "approved", !.approved_by = 2,
                                          !.approved_at = 1]>>,
           !.audit = Append(log, AuditRow(2, "approve", "timesheet", 1, NoText, "approved"))]
       @@ [before |-> found]

InitRace ==
    /\ clients = TimesheetApproved.clients
    /\ sows = TimesheetApproved.sows
    /\ projects = TimesheetApproved.projects
    /\ timesheets = TimesheetApproved.timesheets
    /\ invoices = TimesheetApproved.invoices
    /\ line_items = TimesheetApproved.line_items
    /\ audit = TimesheetApproved.audit
    /\ last = [op |-> "approve_timesheet", id |-> 1, result |-> "ok",
               req |-> NoReq, pre |-> TimesheetApproved.before]
    /\ inflight = [s \in Sessions |-> Idle]

NextRace ==
    \/ \E s \in Sessions : InvoiceSelect(s)
    \/ \E s \in Sessions : InvoiceLookup(s)
    \/ \E s \in Sessions : InvoiceNumbering(s)
    \/ \E s \in Sessions : InvoiceInsert(s)

SpecRace == InitRace /\ [][NextRace]_vars

(* --------------------------------------- specification: client records *)
NextCl ==
    \/ CreateClientWith(MaxClientRows, MaxClientAudit)
    \/ UpdateClient
    \/ DeleteClient

SpecCl == InitTS /\ [][NextCl]_vars

(* ------------------------------- specification: timesheet review over HTTP *)
NextHttp ==
    \/ CreateBillable
    \/ SubmitTimesheet
    \/ ApproveTimesheetRoute
    \/ RejectTimesheetRoute

SpecHttp == InitTS /\ [][NextHttp]_vars

(* ------------------------- specification: concurrent project creation *)
\* the approved SOW of ProjectReady, before its project was created
InitProjectRace ==
    /\ clients = ProjectReady.before.clients
    /\ sows = ProjectReady.before.sows
    /\ projects = ProjectReady.before.projects
    /\ timesheets = ProjectReady.before.timesheets
    /\ invoices = ProjectReady.before.invoices
    /\ line_items = ProjectReady.before.line_items
    /\ audit = ProjectReady.before.audit
    /\ last = [op |-> "approve_sow", id |-> 1, result |-> "ok", req |-> NoReq,
               pre |-> [ProjectReady.before EXCEPT
                           !.sows = <<[@[1] EXCEPT !.status = "pending",
                                                   !.approved_by = None,
                                                   !.approved_at = None]>>,
                           !.audit = SubSeq(@, 1, 3)]]
    /\ inflight = [s \in Sessions |-> Idle]

NextProjectRace ==
    \/ \E s \in Sessions : ProjectCheck(s)
    \/ \E s \in Sessions : ProjectInsert(s)
    \/ UpdateProject
    \/ CloseProject

SpecProjectRace == InitProjectRace /\ [][NextProjectRace]_vars

(* ------------------------------ specification: validated timesheet edits *)
NextTV ==
    \/ CreateTimesheet
    \/ UpdateValidated
    \/ SubmitTimesheet

SpecTV == InitTS /\ [][NextTV]_vars

(* -------------------------- specification: invoicing with several clients *)
NextPair ==
    \/ CreateClientWith(MaxClientRows, MaxRaceAudit)
    \/ \E s \in Sessions : InvoiceSelect(s)
    \/ \E s \in Sessions : InvoiceLookup(s)
    \/ \E s \in Sessions : InvoiceNumbering(s)
    \/ \E s \in Sessions : InvoiceInsert(s)

SpecPair == InitRace /\ [][NextPair]_vars

(* ---------------------------------------- specification: timesheet editing *)
EditEntry == UpdateTimesheetWith(EntryDates, EntryHours, EntryRates, MaxEntryAudit)

NextTE ==
    \/ CreateTimesheet
    \/ EditEntry
    \/ SubmitTimesheet

SpecTE == InitTS /\ [][NextTE]_vars

(* ================================================================ claims *)
\* A claim about one request compares the tables the request found
\* (last.pre) with the tables it left behind.
Ran(op, id, result) == last.op = op /\ last.id = id /\ last.result = result

SowArrows == {<<"draft", "pending">>, <<"pending", "approved">>, <<"pending", "rejected">>}

\* C1: across every request a SOW keeps its status or follows draft -> pending,
\* pending -> approved or pending -> rejected; no SOW disappears, a new SOW
\* starts in draft, and nothing leaves approved or rejected.
C1_SowStatusArrows ==
    /\ Len(sows) >= Len(last.pre.sows)
    /\ \A i \in 1..Len(sows) :
          IF i <= Len(last.pre.sows)
          THEN \/ sows[i].status = last.pre.sows[i].status
               \/ <<last.pre.sows[i].status, sows[i].status>> \in SowArrows
          ELSE sows[i].status = "draft"

\* a rejected SOW on which an approval was attempted and refused
C1_Witness ==
    \E i \in 1..Len(sows) :
        /\ sows[i].status = "rejected"
        /\ Ran("approve_sow", i, "InvalidState")

\* C2: submit_sow succeeds only on a draft SOW; on a pending, approved or
\* rejected SOW it fails with InvalidState, no SOW changes and the audit log
\* does not grow.
C2_SubmitOnlyDraft ==
    (last.op = "submit_sow" /\ last.id \in 1..Len(last.pre.sows)) =>
        IF last.pre.sows[last.id].status = "draft"
        THEN last.result = "ok"
        ELSE /\ last.result = "InvalidState"
             /\ sows = last.pre.sows
             /\ audit = last.pre.audit

\* the second submit of a SOW that the first submit made pending
C2_Witness ==
    \E i \in 1..Len(sows) :
        /\ sows[i].status = "pending"
        /\ Ran("submit_sow", i, "InvalidState")
        /\ \E k \in 1..Len(audit) :
              audit[k].action = "submit" /\ audit[k].entity_type = "sow"
              /\ audit[k].entity_id = i

\* C3: approve_sow fails with InvalidState unless the SOW is pending and then
\* changes no SOW; on success the status is approved for flag true and
\* rejected for flag false and approved_by / approved_at are stamped; in every
\* state a SOW carries the stamp iff its status is approved or rejected.
C3_ApproveStep ==
    (last.op \in {"approve_sow", "reject_sow"} /\ last.id \in 1..Len(last.pre.sows)) =>
        IF last.pre.sows[last.id].status # "pending"
        THEN last.result = "InvalidState" /\ sows = last.pre.sows
        ELSE /\ last.result = "ok"
             /\ sows[last.id].status =
                    (IF last.op = "approve_sow" THEN "approved" ELSE "rejected")
             /\ sows[last.id].approved_by \in Users
             /\ sows[last.id].approved_by = audit[Len(audit)].user_id
             /\ sows[last.id].approved_at \in Times

C3_StampIffDecided ==
    \A i \in 1..Len(sows) :
        /\ (sows[i].approved_by # None) <=> (sows[i].status \in {"approved", "rejected"})
        /\ (sows[i].approved_at # None) <=> (sows[i].status \in {"approved", "rejected"})

C3_ApproveStamps == C3_ApproveStep /\ C3_StampIffDecided

\* a SOW that a successful reject_sow has just stamped
C3_Witness ==
    \E i \in 1..Len(sows) :
        /\ Ran("reject_sow", i, "ok")
        /\ last.pre.sows[i].status = "pending"
        /\ sows[i].status = "rejected"
        /\ sows[i].approved_by # None

\* C4: update_sow on a SOW that is not draft fails with InvalidState and
\* changes no SOW; on a draft SOW it is not refused for its state, every
\* column the request does not supply (status included) keeps its value, no
\* other SOW changes, and when the update goes through every supplied column
\* holds the supplied value.
C4_UpdateFrame ==
    (last.op = "update_sow" /\ last.id \in 1..Len(last.pre.sows)) =>
        LET i == last.id
            req == last.req
            old == last.pre.sows
        IN IF old[i].status # "draft"
           THEN last.result = "InvalidState" /\ sows = old
           ELSE /\ last.result # "InvalidState"
                /\ Len(sows) = Len(old)
                /\ \A j \in 1..Len(old) : j # i => sows[j] = old[j]
                /\ \A f \in DOMAIN old[i] \ Supplied(req) : sows[i][f] = old[i][f]
                /\ last.result = "ok" =>
                       \A f \in Supplied(req) : sows[i][f] = req[f]

\* an update of a draft SOW that supplied two of the four columns and changed
\* one of them
C4_Witness ==
    /\ last.op = "update_sow"
    /\ last.result = "ok"
    /\ Supplied(last.req) = {"title", "rate"}
    /\ sows[last.id].status = "draft"
    /\ sows[last.id].title # last.pre.sows[last.id].title

\* C5: create_project_from_sow fails with NotFound for a missing SOW and with
\* InvalidState for a SOW that is not approved, creating no project; every
\* project references an existing SOW whose status is approved.
C5_CreateStep ==
    last.op = "create_project_from_sow" =>
        /\ last.id \notin 1..Len(last.pre.sows) =>
              last.result = "NotFound" /\ projects = last.pre.projects
        /\ (/\ last.id \in 1..Len(last.pre.sows)
            /\ last.pre.sows[last.id].status # "approved") =>
              last.result = "InvalidState" /\ projects = last.pre.projects

C5_ProjectSowApproved ==
    \A p \in 1..Len(projects) :
        /\ projects[p].sow_id \in 1..Len(sows)
        /\ sows[projects[p].sow_id].status = "approved"

C5_ProjectNeedsApproved == C5_CreateStep /\ C5_ProjectSowApproved

\* a project creation refused because the SOW was still pending
C5_Witness ==
    \E i \in 1..Len(sows) :
        /\ Ran("create_project_from_sow", i, "InvalidState")
        /\ sows[i].status = "pending"
        /\ projects = << >>

\* C6: no SOW is referenced by two projects, and create_project_from_sow for
\* an approved SOW that already has a project fails with AlreadyExists,
\* adding no project and no audit row.
C6_DuplicateStep ==
    (/\ last.op = "create_project_from_sow"
     /\ last.id \in 1..Len(last.pre.sows)
     /\ last.pre.sows[last.id].status = "approved"
     /\ \E p \in 1..Len(last.pre.projects) : last.pre.projects[p].sow_id = last.id) =>
        /\ last.result = "AlreadyExists"
        /\ projects = last.pre.projects
        /\ audit = last.pre.audit

C6_AtMostOne ==
    \A p, q \in 1..Len(projects) : projects[p].sow_id = projects[q].sow_id => p = q

C6_OneProjectPerSow == C6_DuplicateStep /\ C6_AtMostOne

\* the refused second creation for a SOW whose project has been closed
C6_Witness ==
    /\ Len(projects) = 1
    /\ projects[1].status = "closed"
    /\ Ran("create_project_from_sow", projects[1].sow_id, "AlreadyExists")

\* C7: a project is created in_progress with name, description, dates and
\* budget copied from the SOW's title, description, dates and total_budget,
\* and no request changes sow_id, name, start_date, end_date or budget of an
\* existing project.
C7_Snapshot ==
    /\ Len(projects) >= Len(last.pre.projects)
    /\ \A p \in 1..Len(projects) :
          IF p <= Len(last.pre.projects)
          THEN \A f \in {"sow_id", "name", "start_date", "end_date", "budget"} :
                  projects[p][f] = last.pre.projects[p][f]
          ELSE LET sow == last.pre.sows[projects[p].sow_id]
               IN /\ projects[p].status = "in_progress"
                  /\ projects[p].name = sow.title
                  /\ projects[p].description = sow.description
                  /\ projects[p].start_date = sow.start_date
                  /\ projects[p].end_date = sow.end_date
                  /\ projects[p].budget = sow.total_budget

\* a project whose description was changed after creation, the copied
\* columns still equal to the SOW's
C7_Witness ==
    /\ last.op = "update_project" /\ last.result = "ok"
    /\ \E p \in 1..Len(projects) :
          /\ last.id = p
          /\ projects[p].description # sows[projects[p].sow_id].description
          /\ projects[p].budget = sows[projects[p].sow_id].total_budget

\* C8: a project's status changes only from in_progress to closed, a closed
\* project stays closed, and close_project on a closed project fails with
\* InvalidState, changing no project and adding no audit row.
C8_ClosedStaysClosed ==
    /\ \A p \in 1..Len(last.pre.projects) :
          /\ p <= Len(projects)
          /\ last.pre.projects[p].status = "closed" => projects[p].status = "closed"
          /\ projects[p].status # last.pre.projects[p].status =>
                 /\ last.pre.projects[p].status = "in_progress"
                 /\ projects[p].status = "closed"
    /\ (/\ last.op = "close_project"
        /\ last.id \in 1..Len(last.pre.projects)
        /\ last.pre.projects[last.id].status = "closed") =>
           /\ last.result = "InvalidState"
           /\ projects = last.pre.projects
           /\ audit = last.pre.audit

\* the refused second close of a closed project
C8_Witness ==
    \E p \in 1..Len(projects) :
        /\ projects[p].status = "closed"
        /\ Ran("close_project", p, "InvalidState")

\* C9: on a closed project every update_project call fails with InvalidState
\* and no request changes the description the project had when it was closed.
C9_ClosedNoUpdate ==
    \A p \in 1..Len(last.pre.projects) :
        last.pre.projects[p].status = "closed" =>
           /\ projects[p].description = last.pre.projects[p].description
           /\ (last.op = "update_project" /\ last.id = p) =>
                  last.result = "InvalidState"

\* the refused update of a closed project
C9_Witness ==
    \E p \in 1..Len(projects) :
        /\ projects[p].status = "closed"
        /\ Ran("update_project", p, "InvalidState")

TimesheetArrows ==
    {<<"draft", "submitted">>, <<"submitted", "approved">>, <<"submitted", "rejected">>}

\* the status a timesheet operation requires
RequiredStatus(op) == IF op = "submit_timesheet" THEN "draft" ELSE "submitted"

\* C10: across every request a timesheet keeps its status or follows
\* draft -> submitted, submitted -> approved or submitted -> rejected, so
\* nothing leaves approved or rejected; a new timesheet starts in draft; and
\* submit on a timesheet that is not draft, approve or reject on one that is
\* not submitted, fail with InvalidState and leave every timesheet as it was.
C10_TimesheetStatusArrows ==
    /\ Len(timesheets) >= Len(last.pre.timesheets)
    /\ \A t \in 1..Len(timesheets) :
          IF t <= Len(last.pre.timesheets)
          THEN \/ timesheets[t].status = last.pre.timesheets[t].status
               \/ <<last.pre.timesheets[t].status, timesheets[t].status>>
                      \in TimesheetArrows
          ELSE timesheets[t].status = "draft"
    /\ (/\ last.op \in {"submit_timesheet", "approve_timesheet", "reject_timesheet"}
        /\ last.id \in 1..Len(last.pre.timesheets)) =>
          IF last.pre.timesheets[last.id].status # RequiredStatus(last.op)
          THEN last.result = "InvalidState" /\ timesheets = last.pre.timesheets
          ELSE last.result = "ok"

\* an approved timesheet on which a rejection was attempted and refused
C10_Witness ==
    \E t \in 1..Len(timesheets) :
        /\ timesheets[t].status = "approved"
        /\ Ran("reject_timesheet", t, "InvalidState")

\* the state in which timesheet work starts is one the workflow produces
ProjectReady_Witness ==
    /\ clients = ProjectReady.clients
    /\ sows = ProjectReady.sows
    /\ projects = ProjectReady.projects
    /\ timesheets = ProjectReady.timesheets
    /\ invoices = ProjectReady.invoices
    /\ line_items = ProjectReady.line_items
    /\ audit = ProjectReady.audit
    /\ last.op = "create_project_from_sow" /\ last.id = 1 /\ last.result = "ok"
    /\ last.req = NoReq
    /\ last.pre = ProjectReady.before

\* C11: create_timesheet fails with NotFound for a missing project, with
\* OutOfRange for a work_date before the project's start_date or after its
\* end_date, and with OutOfRange for hours_logged outside (0, 24]; a failing
\* call adds no timesheet and no audit row; a call with the work_date on
\* either end of the project's dates and with hours up to 24 goes through and
\* adds one timesheet.
C11_CreateChecks ==
    last.op = "create_timesheet" =>
        LET a == last.req
            found == a.project_id \in 1..Len(last.pre.projects)
            project == last.pre.projects[a.project_id]
            date_ok == project.start_date <= a.work_date /\ a.work_date <= project.end_date
            hours_ok == 0 < a.hours_logged /\ a.hours_logged <= 2400
        IN /\ ~found => last.result = "NotFound"
           /\ (found /\ ~date_ok) => last.result = "OutOfRange"
           /\ (found /\ date_ok /\ ~hours_ok) => last.result = "OutOfRange"
           /\ (found /\ date_ok /\ hours_ok) =>
                 /\ last.result = "ok"
                 /\ Len(timesheets) = Len(last.pre.timesheets) + 1
           /\ last.result # "ok" =>
                 /\ timesheets = last.pre.timesheets
                 /\ audit = last.pre.audit

\* an entry of 24 hours dated on the project's first day was accepted
C11_Witness ==
    /\ last.op = "create_timesheet" /\ last.result = "ok"
    /\ last.req.hours_logged = 2400
    /\ last.req.work_date = projects[last.req.project_id].start_date
    /\ timesheets[last.id].hours_logged = 2400

\* C12: every timesheet's work_date lies within the start_date and end_date of
\* its project, after any sequence of create_timesheet and update_timesheet
\* calls.
C12_WorkDateInProject ==
    \A t \in 1..Len(timesheets) :
        LET project == projects[timesheets[t].project_id]
        IN project.start_date <= timesheets[t].work_date
           /\ timesheets[t].work_date <= project.end_date

\* the amount in cents is hours (hundredths) times rate (cents) rounded to the
\* cent: it differs from the exact product by at most half a cent
RoundedToCents(amount, hours_logged, billing_rate) ==
    LET exact == hours_logged * billing_rate
    IN 100 * amount - exact <= 50 /\ exact - 100 * amount <= 50

\* C13: every timesheet's billable_amount is hours_logged * billing_rate
\* rounded to 2 decimal places when is_billable is true and 0 when it is
\* false, after create_timesheet and after every update_timesheet.
C13_BillableAmount ==
    \A t \in 1..Len(timesheets) :
        IF timesheets[t].is_billable
        THEN RoundedToCents(timesheets[t].billable_amount,
                            timesheets[t].hours_logged, timesheets[t].billing_rate)
        ELSE timesheets[t].billable_amount = 0

\* an update that changed hours and rate to a product that is not a whole
\* number of cents, and one that switched billing off
C13_Witness ==
    /\ last.op = "update_timesheet" /\ last.result = "ok"
    /\ LET old == last.pre.timesheets[last.id]
           new == timesheets[last.id]
       IN /\ new.is_billable
          /\ (new.hours_logged * new.billing_rate) % 100 # 0
          /\ new.billable_amount # old.billable_amount

\* C14: update_timesheet on a timesheet that is not draft fails with
\* InvalidState, changes no timesheet and adds no audit row; on a draft
\* timesheet it goes through, every supplied column holds the supplied value,
\* every other column keeps its value, billable_amount is recomputed from the
\* resulting hours_logged, billing_rate and is_billable, the status stays
\* draft and no other timesheet changes.
C14_UpdateTimesheet ==
    (last.op = "update_timesheet" /\ last.id \in 1..Len(last.pre.timesheets)) =>
        LET old == last.pre.timesheets[last.id]
            new == timesheets[last.id]
            req == last.req
        IN IF old.status # "draft"
           THEN /\ last.result = "InvalidState"
                /\ timesheets = last.pre.timesheets
                /\ audit = last.pre.audit
           ELSE /\ last.result = "ok"
                /\ new.work_date = (IF req.work_date = Unset THEN old.work_date
                                    ELSE req.work_date)
                /\ new.hours_logged = (IF req.hours_logged = Unset THEN old.hours_logged
                                       ELSE req.hours_logged)
                /\ new.billing_rate = (IF req.billing_rate = Unset THEN old.billing_rate
                                       ELSE req.billing_rate)
                /\ new.is_billable = (IF req.is_billable = << >> THEN old.is_billable
                                      ELSE req.is_billable[1])
                /\ new.notes = (IF req.notes = UnsetText THEN old.notes ELSE req.notes)
                /\ IF new.is_billable
                   THEN RoundedToCents(new.billable_amount, new.hours_logged,
                                       new.billing_rate)
                   ELSE new.billable_amount = 0
                /\ new.status = "draft"
                /\ \A f \in {"project_id", "consultant_id", "invoice_id", "submitted_at",
                             "approved_by", "approved_at"} : new[f] = old[f]
                /\ Len(timesheets) = Len(last.pre.timesheets)
                /\ \A t \in 1..Len(timesheets) :
                      t # last.id => timesheets[t] = last.pre.timesheets[t]

\* an update that supplied the hours alone: the amount follows, the notes stay
C14_Witness ==
    /\ last.op = "update_timesheet" /\ last.result = "ok"
    /\ last.req.hours_logged = 2400
    /\ last.req.work_date = Unset /\ last.req.billing_rate = Unset
    /\ last.req.is_billable = << >> /\ last.req.notes = UnsetText
    /\ timesheets[last.id].notes = "n1"
    /\ timesheets[last.id].billable_amount = 240000
    /\ last.pre.timesheets[last.id].billable_amount = 80000

\* an update of a submitted timesheet was refused
C14_WitnessRefused ==
    /\ last.op = "update_timesheet" /\ last.result = "InvalidState"
    /\ timesheets[last.id].status = "submitted"


\* generate_invoice was called for a project that had approved timesheets
\* without an invoice, with a client and a project that exist
InvoiceDue ==
    /\ last.op = "generate_invoice"
    /\ last.req.selected # {}
    /\ Exists(last.pre.clients, last.req.client_id)
    /\ Exists(last.pre.projects, last.req.project_id)

\* C15: a timesheet whose invoice_id is set has status approved, and from the
\* moment generate_invoice sets the invoice_id of the timesheets it bills no
\* request changes any field of such a timesheet.
C15_InvoicedFrozen ==
    /\ \A t \in 1..Len(timesheets) :
          timesheets[t].invoice_id # None => timesheets[t].status = "approved"
    /\ \A t \in 1..Len(last.pre.timesheets) :
          last.pre.timesheets[t].invoice_id # None =>
              timesheets[t] = last.pre.timesheets[t]
    /\ InvoiceDue =>
          \A t \in last.req.selected :
              /\ timesheets[t].invoice_id # None
              /\ timesheets[t] = [last.pre.timesheets[t] EXCEPT
                                     !.invoice_id = timesheets[t].invoice_id]

\* C16: generate_invoice bills exactly the timesheets of the project that were
\* approved and had no invoice_id when it was called; when there is none it
\* returns ValidationError and creates no invoice, no line item and no audit
\* record.
C16_BillsApprovedUninvoiced ==
    last.op = "generate_invoice" =>
        LET old == last.pre.timesheets
            due == {t \in 1..Len(old) :
                       /\ old[t].project_id = last.req.project_id
                       /\ old[t].status = "approved"
                       /\ old[t].invoice_id = None}
            billed == {t \in 1..Len(old) : timesheets[t].invoice_id # old[t].invoice_id}
        IN IF due = {}
           THEN /\ last.result = "ValidationError"
                /\ invoices = last.pre.invoices
                /\ line_items = last.pre.line_items
                /\ audit = last.pre.audit
           ELSE InvoiceDue =>
                /\ billed = due
                /\ \A t \in billed : timesheets[t].invoice_id = last.id
                /\ Len(line_items) = Len(last.pre.line_items) + Cardinality(due)

\* C17: called with a client and a project that exist and at least one
\* approved timesheet without an invoice, generate_invoice succeeds and
\* persists exactly one new invoice, with status draft, discount_amount 0 and
\* no due_date.
C17_GenerateInvoiceSucceeds ==
    InvoiceDue =>
        /\ last.result = "ok"
        /\ Len(invoices) = Len(last.pre.invoices) + 1
        /\ last.id = Len(invoices)
        /\ \A i \in 1..Len(last.pre.invoices) : invoices[i] = last.pre.invoices[i]
        /\ invoices[last.id].status = "draft"
        /\ invoices[last.id].discount_amount = 0
        /\ invoices[last.id].due_date = None

\* C18: the invoice generate_invoice produces has as subtotal the exact sum
\* of the billable_amount of the timesheets it bills, and as tax_amount a
\* tenth of the subtotal rounded to the cent, an exact half cent going up.
C18_TaxHalfUp ==
    InvoiceDue =>
        /\ last.req.invoice.subtotal = SumBillable(last.req.selected)
        /\ last.req.invoice.tax_amount = (last.req.invoice.subtotal * 10 + 50) \div 100

\* C19: every persisted invoice has total_amount = subtotal + tax_amount -
\* discount_amount to the cent, and the invoice generate_invoice persists is
\* one of them.
C19_TotalAmount ==
    /\ \A i \in 1..Len(invoices) :
          invoices[i].total_amount =
              invoices[i].subtotal + invoices[i].tax_amount - invoices[i].discount_amount
    /\ InvoiceDue =>
          /\ Exists(invoices, last.id)
          /\ invoices[last.id] = last.req.invoice

\* C20: the invoice a generate_invoice call creates passes
\* validate_invoice_totals, right after the call and whenever it is validated
\* later.
C20_RoundTrip ==
    /\ InvoiceDue => Exists(invoices, last.id) /\ TotalsMatch(last.id)
    /\ (last.op = "validate_invoice_totals" /\ Exists(invoices, last.id)) =>
          last.result = "ok"

\* the row generate_invoice builds for a subtotal of 100.25: tax 10.02 where
\* half-up gives 10.03, total the sum of the two
InvoiceBuilt_Witness ==
    /\ InvoiceDue
    /\ last.result = "IntegrityError"
    /\ last.req.invoice.subtotal = 10025
    /\ last.req.invoice.tax_amount = 1002
    /\ last.req.invoice.total_amount = 11027
    /\ invoices = << >> /\ line_items = << >> /\ timesheets = last.pre.timesheets
    /\ audit = last.pre.audit


\* C21: after generate_invoice has billed n timesheets the new invoice owns
\* exactly n line items, one per billed timesheet carrying its hours, rate
\* and billable_amount; each billed timesheet has the invoice's id, and no
\* approved timesheet of the project is left without an invoice.
C21_LineItemPerTimesheet ==
    InvoiceDue =>
        LET items == {k \in 1..Len(line_items) : line_items[k].invoice_id = last.id}
        IN /\ last.result = "ok"
           /\ Cardinality(items) = Cardinality(last.req.selected)
           /\ \A t \in last.req.selected :
                 /\ timesheets[t].invoice_id = last.id
                 /\ \E k \in items :
                       /\ line_items[k].quantity = timesheets[t].hours_logged
                       /\ line_items[k].unit_price = timesheets[t].billing_rate
                       /\ line_items[k].line_total = timesheets[t].billable_amount
           /\ ApprovedUninvoiced(last.req.project_id) = {}

\* the state in which concurrent invoicing starts is one the workflow produces
TimesheetApproved_Witness ==
    /\ clients = TimesheetApproved.clients
    /\ sows = TimesheetApproved.sows
    /\ projects = TimesheetApproved.projects
    /\ timesheets = TimesheetApproved.timesheets
    /\ invoices = TimesheetApproved.invoices
    /\ line_items = TimesheetApproved.line_items
    /\ audit = TimesheetApproved.audit
    /\ last.op = "approve_timesheet" /\ last.id = 1 /\ last.result = "ok"
    /\ last.req = NoReq
    /\ last.pre = TimesheetApproved.before
    /\ inflight = [s \in Sessions |-> Idle]

\* C22: no two persisted invoices have the same invoice_number, whatever the
\* interleaving of the generate_invoice requests that ran.
C22_InvoiceNumberUnique ==
    \A i, j \in 1..Len(invoices) :
        invoices[i].invoice_number = invoices[j].invoice_number => i = j

\* two requests were given the same number; one has tried its insert, the
\* other is about to
C22_Witness ==
    \E s \in Sessions :
        /\ inflight[s].pc = "numbered"
        /\ last.op = "generate_invoice" /\ last.result = "IntegrityError"
        /\ last.req.invoice.invoice_number = inflight[s].invoice.invoice_number
        /\ \A i, j \in 1..Len(invoices) :
              invoices[i].invoice_number = invoices[j].invoice_number => i = j

\* C23: two generate_invoice requests with the same invoice date that both
\* counted the invoices of that date before either inserted hold the same
\* invoice_number, its sequence being 1 + that count.
C23_SameNumberTwice ==
    \A s, t \in Sessions :
        (/\ s # t
         /\ inflight[s].pc = "numbered" /\ inflight[t].pc = "numbered"
         /\ inflight[s].invoice_date = inflight[t].invoice_date
         /\ inflight[s].counted = inflight[t].counted)
        => /\ inflight[s].invoice.invoice_number = inflight[t].invoice.invoice_number
           /\ inflight[s].invoice.invoice_number.sequence = 1 + inflight[s].counted

\* both requests run on day 1 and both hold number 1 of that day, neither
\* having inserted
C23_Witness ==
    /\ inflight[1].pc = "numbered" /\ inflight[2].pc = "numbered"
    /\ inflight[1].invoice_date = 1 /\ inflight[2].invoice_date = 1
    /\ inflight[1].invoice.invoice_number = [date |-> 1, sequence |-> 1]
    /\ inflight[2].invoice.invoice_number = [date |-> 1, sequence |-> 1]
    /\ invoices = << >>

InvoiceArrows == {<<"draft", "sent">>, <<"draft", "paid">>, <<"sent", "paid">>}

\* C24: an invoice starts in draft once generate_invoice has created it and
\* its status changes only draft -> sent by send_invoice and draft -> paid or
\* sent -> paid by mark_invoice_paid; send_invoice on an invoice that is not
\* draft and mark_invoice_paid on a paid one give InvalidState; a paid
\* invoice keeps its status and payment_date.
C24_InvoiceStatusArrows ==
    /\ \A i \in 1..Len(last.pre.invoices) :
          LET old == last.pre.invoices[i]
              new == invoices[i]
          IN /\ \/ new.status = old.status
                \/ /\ <<old.status, new.status>> \in InvoiceArrows
                   /\ last.id = i
                   /\ last.op = IF new.status = "sent" THEN "send_invoice"
                                ELSE "mark_invoice_paid"
             /\ old.status = "paid" => new = old
    /\ (/\ last.op \in {"send_invoice", "mark_invoice_paid"}
        /\ last.result # "Forbidden"
        /\ Exists(last.pre.invoices, last.id))
       => LET old == last.pre.invoices[last.id]
          IN IF last.op = "send_invoice"
             THEN (old.status # "draft") = (last.result = "InvalidState")
             ELSE (old.status = "paid") = (last.result = "InvalidState")
    /\ InvoiceDue => Exists(invoices, last.id) /\ invoices[last.id].status = "draft"


\* the entity each state-changing operation works on
EntityOf ==
    [create_client |-> "client", create_sow |-> "sow", update_sow |-> "sow",
     submit_sow |-> "sow", approve_sow |-> "sow", reject_sow |-> "sow",
     create_project_from_sow |-> "project", update_project |-> "project",
     close_project |-> "project", create_timesheet |-> "timesheet",
     update_timesheet |-> "timesheet", submit_timesheet |-> "timesheet",
     approve_timesheet |-> "timesheet", reject_timesheet |-> "timesheet",
     generate_invoice |-> "invoice", send_invoice |-> "invoice",
     mark_invoice_paid |-> "invoice"]

\* the entity tables differ from what the request found
EntitiesChanged == [Tables EXCEPT !.audit = << >>] # [last.pre EXCEPT !.audit = << >>]

\* the audit rows the request added name the entity it worked on
AuditNamesEntity ==
    \E k \in (Len(last.pre.audit) + 1)..Len(audit) :
        /\ audit[k].entity_type = EntityOf[last.op]
        /\ audit[k].entity_id = last.id

\* C25: every successful create, update, submit, approve, reject, close,
\* generate, send or mark-paid request that changed a client, SOW, project,
\* timesheet or invoice added at least one audit row naming that entity.
C25_EveryChangeAudited ==
    (last.op \in DOMAIN EntityOf /\ last.result = "ok" /\ EntitiesChanged)
        => AuditNamesEntity

\* C26: the audit log is append-only: after every request the log the request
\* found is a prefix of the log, no row of it changed or removed.
C26_AuditAppendOnly ==
    /\ Len(last.pre.audit) <= Len(audit)
    /\ \A k \in 1..Len(last.pre.audit) : audit[k] = last.pre.audit[k]

\* an approval added its row behind the three rows already in the log
C26_Witness ==
    /\ Ran("approve_sow", 1, "ok")
    /\ Len(last.pre.audit) = 3
    /\ audit = Append(last.pre.audit, AuditRow(2, "approve", "sow", 1, "pending", "approved"))

\* the operations that call log_audit
AuditingOps == DOMAIN EntityOf \ {"update_sow", "send_invoice", "mark_invoice_paid"}

\* C27: for every operation that writes an audit row, the change of the
\* entity and the audit row are committed together or not at all: the
\* entities changed only if a row naming the entity was added, a row was
\* added only by a request that succeeded on that entity, and a request that
\* failed left every table, the audit log included, as it found it.
C27_AuditWithMutation ==
    /\ last.result # "ok" => Tables = last.pre
    /\ last.op \in AuditingOps =>
          /\ EntitiesChanged => AuditNamesEntity
          /\ audit # last.pre.audit => last.result = "ok" /\ AuditNamesEntity
    /\ last.op \notin AuditingOps => audit = last.pre.audit

\* a project was created from an approved SOW together with its audit row
C27_Witness ==
    /\ Ran("create_project_from_sow", 1, "ok")
    /\ Len(projects) = Len(last.pre.projects) + 1
    /\ Len(audit) = Len(last.pre.audit) + 1
    /\ audit[Len(audit)].entity_type = "project"
    /\ audit[Len(audit)].entity_id = 1

\* a request refused at the flush left the tables and the audit log alone
C27_WitnessRolledBack ==
    /\ last.op = "update_sow" /\ last.result = "IntegrityError"
    /\ Tables = last.pre
    /\ audit # << >>


\* C28: calculate_days_overdue returns 0 for an invoice with a payment_date,
\* 0 for one without a due_date, and otherwise the days from due_date to
\* today when today is later and 0 when it is not; it is never negative.
C28_DaysOverdue ==
    last.op = "calculate_days_overdue" =>
        LET r == last.req
        IN /\ r.days >= 0
           /\ r.payment_date # None => r.days = 0
           /\ r.due_date = None => r.days = 0
           /\ (r.payment_date = None /\ r.due_date # None) =>
                 /\ r.today > r.due_date => r.days = r.today - r.due_date
                 /\ r.today <= r.due_date => r.days = 0

\* an unpaid invoice that falls due four days after today
C28_Witness ==
    /\ last.op = "calculate_days_overdue"
    /\ last.req.payment_date = None
    /\ last.req.today = 1 /\ last.req.due_date = 5
    /\ last.req.days = 0

\* an unpaid invoice three days past its due date
C28_WitnessOverdue ==
    /\ last.op = "calculate_days_overdue"
    /\ last.req.payment_date = None
    /\ last.req.today = 5 /\ last.req.due_date = 2
    /\ last.req.days = 3

RECURSIVE SumOf(_, _)
SumOf(ids, field) ==
    IF ids = {} THEN 0
    ELSE LET t == CHOOSE x \in ids : TRUE
         IN timesheets[t][field] + SumOf(ids \ {t}, field)

\* C29: get_project_summary reports as total_hours the hours logged on the
\* project's timesheets, as billable_amount the billable amount of its
\* approved timesheets, and as budget_percentage that amount as a percentage
\* of the budget (0 when the budget is 0).
C29_ProjectSummary ==
    (last.op = "get_project_summary" /\ last.result = "ok") =>
        LET own == {t \in 1..Len(timesheets) : timesheets[t].project_id = last.id}
            approved == {t \in own : timesheets[t].status = "approved"}
            budget == projects[last.id].budget
        IN /\ last.req.total_hours = SumOf(own, "hours_logged")
           /\ last.req.billable_amount = SumOf(approved, "billable_amount")
           /\ IF budget = 0 THEN last.req.budget_percentage = 0
              ELSE last.req.budget_percentage * budget = last.req.billable_amount * 100


\* generate_invoice was called with a client_id or a project_id that does not
\* resolve
InvoiceForUnknown ==
    /\ last.op = "generate_invoice"
    /\ \/ ~Exists(last.pre.clients, last.req.client_id)
       \/ ~Exists(last.pre.projects, last.req.project_id)

\* C30 as stated: generate_invoice fails with NotFound when client_id or
\* project_id does not resolve, creating no invoice and marking no timesheet.
C30_UnknownIsNotFound ==
    InvoiceForUnknown =>
        /\ last.result = "NotFound"
        /\ invoices = last.pre.invoices
        /\ timesheets = last.pre.timesheets

\* C30 amended: generate_invoice looks for the project's approved timesheets
\* without an invoice first. When there is none, which is always so for a
\* project_id that does not resolve, it fails with ValidationError; when
\* there is one and client_id does not resolve it fails with NotFound. In
\* each case no invoice or line item is created and no timesheet is marked.
C30_UnknownRefused ==
    InvoiceForUnknown =>
        /\ ~Exists(last.pre.projects, last.req.project_id) => last.req.selected = {}
        /\ last.result = IF last.req.selected = {} THEN "ValidationError" ELSE "NotFound"
        /\ invoices = last.pre.invoices
        /\ line_items = last.pre.line_items
        /\ timesheets = last.pre.timesheets
        /\ audit = last.pre.audit

\* an unknown client with an approved timesheet waiting on the project
C30_Witness ==
    /\ last.op = "generate_invoice" /\ last.result = "NotFound"
    /\ ~Exists(clients, last.req.client_id)
    /\ Exists(projects, last.req.project_id)
    /\ last.req.selected = {1}
    /\ timesheets[1].invoice_id = None
    /\ invoices = << >>

\* an unknown project: refused for want of timesheets, before the lookup
C30_WitnessProject ==
    /\ last.op = "generate_invoice" /\ last.result = "ValidationError"
    /\ Exists(clients, last.req.client_id)
    /\ ~Exists(projects, last.req.project_id)
    /\ ApprovedUninvoiced(1) = {1}


\* C31: delete_client removes no client: the client is still there with
\* is_active false and its other fields as before, no other row changes, and
\* every SOW and every invoice still references a client that exists.
C31_DeleteKeepsClient ==
    /\ (last.op = "delete_client" /\ last.result = "ok") =>
          /\ Exists(last.pre.clients, last.id)
          /\ clients = [last.pre.clients EXCEPT
                           ![last.id] = [@ EXCEPT !.is_active = FALSE]]
          /\ sows = last.pre.sows
          /\ projects = last.pre.projects
          /\ invoices = last.pre.invoices
    /\ Len(clients) >= Len(last.pre.clients)
    /\ \A w \in 1..Len(sows) : Exists(clients, sows[w].client_id)
    /\ \A i \in 1..Len(invoices) : Exists(clients, invoices[i].client_id)

\* the client of SOW 1 was active and has been deleted
C31_Witness ==
    /\ Ran("delete_client", 1, "ok")
    /\ sows[1].client_id = 1
    /\ last.pre.clients[1].is_active
    /\ ~clients[1].is_active
    /\ clients[1].email = last.pre.clients[1].email

\* C32: no two clients have the same email; create_client with an email in
\* use and update_client changing the email to that of another client fail
\* with AlreadyExists and change nothing.
C32_EmailUnique ==
    /\ \A c, d \in 1..Len(clients) : clients[c].email = clients[d].email => c = d
    /\ (/\ last.op = "create_client"
        /\ \E c \in 1..Len(last.pre.clients) : last.pre.clients[c].email = last.req.email)
       => last.result = "AlreadyExists" /\ Tables = last.pre
    /\ (/\ last.op = "update_client"
        /\ \E c \in 1..Len(last.pre.clients) :
              c # last.id /\ last.pre.clients[c].email = last.req.email
        /\ Exists(last.pre.clients, last.id))
       => last.result = "AlreadyExists" /\ Tables = last.pre

\* an update tried to give client 2 the email of client 1
C32_Witness ==
    /\ last.op = "update_client" /\ last.id = 2 /\ last.result = "AlreadyExists"
    /\ last.req.email = clients[1].email
    /\ clients[2].email # clients[1].email

\* a second client could not be created with the email of the first
C32_WitnessCreate ==
    /\ last.op = "create_client" /\ last.result = "AlreadyExists"
    /\ last.req.email = clients[1].email

(* C33: through the HTTP layer a timesheet is approved or rejected exactly when
   the token's role is project_manager or admin: any other role is refused and
   the timesheet is unchanged, and an admin or project_manager token reviewing a
   submitted timesheet is served. *)
ReviewRoutes == {"http_approve_timesheet", "http_reject_timesheet"}

C33_RoleGate ==
    (last.op \in ReviewRoutes /\ last.req.sub # NoText) =>
        /\ (last.req.role \notin {"project_manager", "admin"}) =>
               (last.result = "Forbidden" /\ Tables = last.pre)
        /\ (last.req.role \in {"project_manager", "admin"}) =>
               last.result # "Forbidden"
        /\ ( /\ last.req.role \in {"project_manager", "admin"}
             /\ Exists(last.pre.timesheets, last.id)
             /\ last.pre.timesheets[last.id].status = "submitted" ) =>
               /\ last.result = "ok"
               /\ timesheets[last.id].status =
                      (IF last.op = "http_approve_timesheet" THEN "approved" ELSE "rejected")

\* an admin token is turned away from a submitted timesheet
C33_AdminRefused ==
    /\ last.op = "http_approve_timesheet"
    /\ last.req.role = "admin"
    /\ last.result = "Forbidden"
    /\ Exists(timesheets, last.id)
    /\ timesheets[last.id].status = "submitted"

(* C34: when two create_project_from_sow requests for the same approved SOW are
   interleaved, both running the existing-project check before either inserts,
   at most one Project references the SOW once both have finished. *)
C34_RaceOneProject ==
    (\A s \in Sessions : inflight[s].pc = "idle") =>
        \A sow_id \in 1..Len(sows) : Cardinality(ProjectsOfSow(sow_id)) <= 1

\* the line items on the invoices of a project, and its billed timesheets
LineItemsOfProject(project_id) ==
    {k \in 1..Len(line_items) :
        /\ Exists(invoices, line_items[k].invoice_id)
        /\ invoices[line_items[k].invoice_id].project_id = project_id}

BilledOfProject(project_id) ==
    {t \in 1..Len(timesheets) :
        timesheets[t].project_id = project_id /\ timesheets[t].invoice_id # None}

(* C35: when two generate_invoice requests for the same project are
   interleaved, both selecting the approved uninvoiced timesheets before either
   marks them, every selected timesheet ends up billed, and on one Invoice only:
   a project never carries more line items than billed timesheets, and an
   invoice_id once set is not overwritten. *)
C35_RaceBilledOnce ==
    /\ \A p \in 1..Len(projects) :
          Cardinality(LineItemsOfProject(p)) <= Cardinality(BilledOfProject(p))
    /\ \A t \in 1..Len(last.pre.timesheets) :
          last.pre.timesheets[t].invoice_id # None =>
              timesheets[t].invoice_id = last.pre.timesheets[t].invoice_id
    /\ (InvoiceDue /\ \A s \in Sessions : inflight[s].pc = "idle") =>
          \A t \in last.req.selected : timesheets[t].invoice_id # None

(* C36: in every reachable state every Timesheet has 0 < hours_logged <= 24;
   the bound holds after create_timesheet and after every update_timesheet
   that changes hours_logged. *)
C36_HoursInRange ==
    \A t \in 1..Len(timesheets) :
        timesheets[t].hours_logged > 0 /\ timesheets[t].hours_logged <= 2400

\* an update has moved a timesheet's hours to the upper bound
C36_Witness ==
    /\ Ran("update_timesheet", 1, "ok")
    /\ last.req.hours_logged = 2400
    /\ last.pre.timesheets[1].hours_logged # 2400
    /\ timesheets[1].hours_logged = 2400

\* an update asking for 25 hours, or for none, is refused and changes nothing
C36_WitnessRefused ==
    /\ last.op = "update_timesheet" /\ last.result = "ValidationError"
    /\ last.req.hours_logged \in {0, 2500}
    /\ Tables = last.pre
    /\ Len(timesheets) = 1

(* C37: with requests run one at a time every Timesheet is billed at most
   once: a successful generate_invoice leaves the project without approved
   uninvoiced timesheets, and a generate_invoice for a project without any
   (the call right after a successful one, no timesheet approved in between)
   fails with ValidationError and creates no Invoice and no LineItem. *)
C37_BilledOnce ==
    /\ \A p \in 1..Len(projects) :
          Cardinality(LineItemsOfProject(p)) <= Cardinality(BilledOfProject(p))
    /\ InvoiceDue =>
          /\ last.result = "ok"
          /\ \A t \in last.req.selected : timesheets[t].invoice_id = last.id
          /\ ApprovedUninvoiced(last.req.project_id) = {}
    /\ (last.op = "generate_invoice" /\ last.req.selected = {}) =>
          /\ last.result = "ValidationError"
          /\ Tables = last.pre

(* C38: an Invoice has a payment_date exactly when its status is paid: the
   invoice generate_invoice creates is draft without payment_date,
   mark_invoice_paid sets the status and the payment_date together, and no
   other operation changes either of them to or from paid. *)
C38_PaymentDateIffPaid ==
    /\ \A i \in 1..Len(invoices) :
          (invoices[i].payment_date # None) <=> (invoices[i].status = "paid")
    /\ InvoiceDue =>
          /\ Exists(invoices, last.id)
          /\ invoices[last.id].status = "draft"
          /\ invoices[last.id].payment_date = None
    /\ Ran("mark_invoice_paid", last.id, "ok") =>
          /\ invoices[last.id].status = "paid"
          /\ invoices[last.id].payment_date # None
          /\ last.pre.invoices[last.id].status # "paid"
    /\ \A i \in 1..Len(last.pre.invoices) :
          ( \/ invoices[i].payment_date # last.pre.invoices[i].payment_date
            \/ (invoices[i].status = "paid") # (last.pre.invoices[i].status = "paid") )
          => (Ran("mark_invoice_paid", i, "ok") /\ invoices[i].status = "paid")

(* C39: send_invoice and mark_invoice_paid change only the status (and the
   payment_date) of the invoice they are given: its number, client, project
   and amounts, every LineItem and every timesheet stay as they were; and no
   operation adds a LineItem to, or removes one from, an Invoice that exists,
   the invoice generate_invoice has created included. *)
C39_OnlyStatusChanges ==
    /\ last.op \in {"send_invoice", "mark_invoice_paid"} =>
          /\ Len(invoices) = Len(last.pre.invoices)
          /\ \A i \in 1..Len(invoices) :
                invoices[i] = [last.pre.invoices[i] EXCEPT
                                  !.status = invoices[i].status,
                                  !.payment_date = invoices[i].payment_date]
          /\ \A i \in 1..Len(invoices) :
                invoices[i] # last.pre.invoices[i] => (i = last.id /\ last.result = "ok")
          /\ line_items = last.pre.line_items
          /\ timesheets = last.pre.timesheets
    /\ Len(line_items) >= Len(last.pre.line_items)
    /\ \A k \in 1..Len(last.pre.line_items) : line_items[k] = last.pre.line_items[k]
    /\ \A k \in (Len(last.pre.line_items) + 1)..Len(line_items) :
          line_items[k].invoice_id > Len(last.pre.invoices)
    /\ InvoiceDue =>
          /\ Exists(invoices, last.id)
          /\ Cardinality({k \in 1..Len(line_items) : line_items[k].invoice_id = last.id})
                 = Cardinality(last.req.selected)

\* the client of the SOW a project was derived from
ClientOfProject(project_id) == sows[projects[project_id].sow_id].client_id

(* C40: every Invoice that has a project_id has as client_id the client of the
   SOW from which that Project was derived, whatever client_id and project_id
   generate_invoice is invoked with: the invoice it builds for an existing
   client and project names the project's client. *)
C40_InvoiceClientOfProject ==
    /\ \A i \in 1..Len(invoices) :
          invoices[i].project_id # None =>
              invoices[i].client_id = ClientOfProject(invoices[i].project_id)
    /\ InvoiceDue =>
          last.req.invoice.client_id = ClientOfProject(last.req.project_id)

\* the invoice built for project 1, whose SOW belongs to client 1, names client 2
C40_Mismatch ==
    /\ InvoiceDue
    /\ last.req.project_id = 1 /\ ClientOfProject(1) = 1
    /\ last.req.invoice.client_id = 2

====
